---- MODULE Spec2Model ----
(***************************************************************************)
(* A model of the aaow workflow core: the budget pool manager, the         *)
(* workflow engine (graph executor, approval gates, resume) and the parts  *)
(* of the storage adapter they write through.                              *)
(*                                                                         *)
(* Every asynchronous method is a process: a stack of frames, one frame    *)
(* per method in flight, and one step per awaited store or provider call,  *)
(* so that the reads and writes of concurrent calls interleave as they do  *)
(* on the event loop.                                                      *)
(***************************************************************************)
EXTENDS Integers, Sequences, FiniteSets, TLC

VARIABLES
    pools,        \* budget_pools table: pool id -> row
    sessions,     \* sessions table: session id -> row
    execStates,   \* execution_states table: session id -> status
    nodeStates,   \* node_execution_states table: <<session id, node id>> -> row
    approvals,    \* approval_requests table: approval id -> row
    llmExecutions,\* llm_executions table: set of rows
    toolCallLogs, \* tool_call_logs table: set of rows
    workflows,    \* workflows table: workflow id -> definition
    procs,        \* the calls in flight: process id -> [call, stack, ret]
    ncalls,       \* number of calls the callers have started so far
    consumedAt,   \* observer: pool id -> sum of the amounts consumeBudget wrote to it
    providerCalls \* observer: set of <<session id, node id>> the provider was invoked for

vars == <<pools, sessions, execStates, nodeStates, approvals, llmExecutions,
          toolCallLogs, workflows, procs, ncalls, consumedAt, providerCalls>>

storeVars == <<pools, sessions, execStates, nodeStates, approvals, llmExecutions,
               toolCallLogs>>

(***************************************************************************)
(* Bounds of the model.                                                    *)
(***************************************************************************)
MaxBudget == 2
MaxAmount == 2
MaxCalls == 4
MaxSessions == 2
MaxConsumed == 4

PoolIds == {"parent", "child"}
ProcIds == {"p1", "p2"}
Amounts == 0..MaxAmount
Budgets == 0..MaxBudget

\* An optional string that is absent (undefined / NULL column).
NoId == ""

\* The absent value of an optional non-string field.
Undefined == [k |-> "undefined"]

EmptyMap == [x \in {} |-> x]

(***************************************************************************)
(* Errors: the message template and its argument.                          *)
(***************************************************************************)
Err(msg, arg) == [msg |-> msg, arg |-> arg]

NoRet == [kind |-> "none"]
Return(v) == [kind |-> "return", val |-> v]
Throw(e) == [kind |-> "throw", err |-> e]

(***************************************************************************)
(* JSON-like values: a kind and a payload.                                 *)
(***************************************************************************)
Null == [k |-> "null"]
Str(s) == [k |-> "string", v |-> s]
Num(n) == [k |-> "number", v |-> n]
Bool(b) == [k |-> "boolean", v |-> b]
Obj(r) == [k |-> "object", v |-> r]
Arr(a) == [k |-> "array", v |-> a]

IsObject(x) == x.k = "object"
IsArray(x) == x.k = "array"

\* typeof x === "object" && x !== null
IsObjectLike(x) == x.k \in {"object", "array"}

\* x == null
IsNullish(x) == x.k \in {"null", "undefined"}

\* The truthiness the adapter's `x ? ... : null` tests.
Truthy(x) ==
    CASE x.k \in {"null", "undefined"} -> FALSE
      [] x.k = "string" -> x.v # ""
      [] x.k = "number" -> x.v # 0
      [] x.k = "boolean" -> x.v
      [] OTHER -> TRUE

\* The index a property key names in an array, 0 when it names none.
ArrayIndex(key) ==
    CASE key = "0" -> 1
      [] key = "1" -> 2
      [] key = "2" -> 3
      [] OTHER -> 0

\* current[key] of an object or an array; the paths of the model index no
\* string, and a number or a boolean has no property they name.
GetProperty(x, key) ==
    CASE x.k = "object" -> IF key \in DOMAIN x.v THEN x.v[key] ELSE Undefined
      [] x.k = "array" ->
            IF key = "length" THEN Num(Len(x.v))
            ELSE IF ArrayIndex(key) \in 1..Len(x.v) THEN x.v[ArrayIndex(key)]
            ELSE Undefined
      [] OTHER -> Undefined

RECURSIVE JoinStrings(_)
JoinStrings(a) ==
    IF Len(a) = 0 THEN ""
    ELSE IF Len(a) = 1 THEN a[1]
    ELSE a[1] \o "," \o JoinStrings(Tail(a))

\* String(value)
RECURSIVE StringOf(_)
StringOf(x) ==
    CASE x.k = "string" -> x.v
      [] x.k = "number" -> ToString(x.v)
      [] x.k = "boolean" -> IF x.v THEN "true" ELSE "false"
      [] x.k = "null" -> "null"
      [] x.k = "undefined" -> "undefined"
      [] x.k = "object" -> "[object Object]"
      [] x.k = "array" ->
            JoinStrings([i \in 1..Len(x.v) |->
                IF IsNullish(x.v[i]) THEN "" ELSE StringOf(x.v[i])])

\* JSON.parse(JSON.stringify(x)) of a defined value: undefined fields of an
\* object are dropped, undefined elements of an array become null.
RECURSIVE JsonRoundTrip(_)
JsonRoundTrip(x) ==
    CASE x.k = "object" ->
            Obj([f \in {g \in DOMAIN x.v : x.v[g].k # "undefined"} |-> JsonRoundTrip(x.v[f])])
      [] x.k = "array" ->
            Arr([i \in 1..Len(x.v) |->
                IF x.v[i].k = "undefined" THEN Null ELSE JsonRoundTrip(x.v[i])])
      [] OTHER -> x

\* A JSON column written as `x ? JSON.stringify(x) : null` and read back as
\* `col ? JSON.parse(col) : undefined`.
StoredJson(x) == IF Truthy(x) THEN JsonRoundTrip(x) ELSE Undefined

(***************************************************************************)
(* Transform node executor.                                                *)
(***************************************************************************)
Const(v) == [type |-> "const", value |-> v]
Get(path) == [type |-> "get", path |-> path]
With(path, fn) == [type |-> "with", path |-> path, fn |-> fn]
If(path, branches) == [type |-> "if", path |-> path, branches |-> branches]
Map(path, fn) == [type |-> "map", path |-> path, fn |-> fn]
Object(value) == [type |-> "object", value |-> value]
TaggedUnion(tag, value) == [type |-> "taggedUnion", tag |-> tag, value |-> value]

RECURSIVE getValueByPath(_, _)
getValueByPath(data, path) ==
    IF Len(path) = 0 THEN data
    ELSE IF IsNullish(data) THEN Undefined
    ELSE getValueByPath(GetProperty(data, Head(path)), Tail(path))

\* { ...data, item } for an object, { item } otherwise.
WithItem(data, item) ==
    IF IsObject(data)
    THEN Obj([f \in DOMAIN data.v \cup {"item"} |-> IF f = "item" THEN item ELSE data.v[f]])
    ELSE IF IsArray(data)
    THEN Obj([f \in {"item"} \cup {g \in {"0", "1", "2"} : ArrayIndex(g) <= Len(data.v)} |->
                IF f = "item" THEN item ELSE data.v[ArrayIndex(f)]])
    ELSE Obj([f \in {"item"} |-> item])

\* `key in branches` holds of the keys of branches and of those every object
\* inherits from Object.prototype, whose values are built-in functions.
InheritedKeys == {"constructor", "toString"}

\* The first failure among evaluated parts, if any.
FirstThrow(results, keys) ==
    IF \E key \in keys : results[key].kind = "throw"
    THEN results[CHOOSE key \in keys : results[key].kind = "throw"]
    ELSE NoRet

RECURSIVE executeTransform(_, _, _)
executeTransform(fn, data, basePath) ==
    CASE fn.type = "const" -> Return(fn.value)
      [] fn.type = "get" -> Return(getValueByPath(data, basePath \o fn.path))
      [] fn.type = "with" -> executeTransform(fn.fn, data, basePath \o fn.path)
      [] fn.type = "if" ->
            LET value == getValueByPath(data, basePath \o fn.path)
                tagged == IsObject(value) /\ "tag" \in DOMAIN value.v
                tag == IF tagged THEN StringOf(value.v["tag"]) ELSE ""
            IN IF tagged /\ tag \in DOMAIN fn.branches
               THEN executeTransform(fn.branches[tag], data, basePath)
               ELSE IF tagged /\ tag \in InheritedKeys
               THEN Throw(Err("Unknown transform function type", "undefined"))
               ELSE IF StringOf(value) \in DOMAIN fn.branches
               THEN executeTransform(fn.branches[StringOf(value)], data, basePath)
               ELSE IF StringOf(value) \in InheritedKeys
               THEN Throw(Err("Unknown transform function type", "undefined"))
               ELSE Throw(Err("No branch found for value", StringOf(value)))
      [] fn.type = "map" ->
            LET array == getValueByPath(data, basePath \o fn.path)
            IN IF ~IsArray(array)
               THEN Throw(Err("Expected array at path", array.k))
               ELSE LET results == [i \in 1..Len(array.v) |->
                            executeTransform(fn.fn, WithItem(data, array.v[i]), basePath)]
                    IN IF FirstThrow(results, 1..Len(array.v)) # NoRet
                       THEN FirstThrow(results, 1..Len(array.v))
                       ELSE Return(Arr([i \in 1..Len(array.v) |-> results[i].val]))
      [] fn.type = "object" ->
            LET results == [f \in DOMAIN fn.value |->
                        executeTransform(fn.value[f], data, basePath)]
            IN IF FirstThrow(results, DOMAIN fn.value) # NoRet
               THEN FirstThrow(results, DOMAIN fn.value)
               ELSE Return(Obj([f \in DOMAIN fn.value |-> results[f].val]))
      [] fn.type = "taggedUnion" ->
            LET results == [f \in DOMAIN fn.value |->
                        executeTransform(fn.value[f], data, basePath)]
            IN IF FirstThrow(results, DOMAIN fn.value) # NoRet
               THEN FirstThrow(results, DOMAIN fn.value)
               ELSE Return(Obj([f \in DOMAIN fn.value \cup {"tag"} |->
                        IF f \in DOMAIN fn.value THEN results[f].val ELSE Str(fn.tag)]))
      [] OTHER -> Throw(Err("Unknown transform function type", fn.type))

(***************************************************************************)
(* Processes.                                                              *)
(***************************************************************************)
NoCall == [op |-> "none"]

IdleProc == [call |-> NoCall, stack |-> <<>>, ret |-> NoRet]

Depth(p) == Len(procs[p].stack)

Active(p) == Depth(p) > 0

Top(p) == procs[p].stack[Depth(p)]

At(p, fn, pc) == Active(p) /\ Top(p).fn = fn /\ Top(p).pc = pc

Done(p) == ~Active(p) /\ procs[p].call.op # "none"

\* Replace the top frame of p.
SetTop(p, frame) ==
    [procs EXCEPT ![p].stack = [@ EXCEPT ![Len(@)] = frame], ![p].ret = NoRet]

\* Push a callee frame on top of the (updated) caller frame.
Call(p, caller, callee) ==
    [procs EXCEPT ![p].stack = Append([@ EXCEPT ![Len(@)] = caller], callee),
                  ![p].ret = NoRet]

\* Pop the top frame, handing r (a Return or a Throw) to the caller.
Finish(p, r) ==
    [procs EXCEPT ![p].stack = SubSeq(@, 1, Len(@) - 1), ![p].ret = r]

\* Observer: the pools whose row a write of p's call changes.
Wrote(ps, p, newPools) ==
    [ps EXCEPT ![p].call.wrote = @ \cup {id \in DOMAIN pools : newPools[id] # pools[id]}]

\* Start a top-level call on a process that has none in flight.
Begin(p, call, frame) ==
    [procs EXCEPT ![p] = [call |-> call, stack |-> <<frame>>, ret |-> NoRet]]

\* A caller of the exported executeTransform, and the call's one step.
StartTransform(p, fn, data, basePath) ==
    /\ ~Active(p)
    /\ ncalls < MaxCalls
    /\ procs' = Begin(p, [op |-> "executeTransform", transform |-> fn, data |-> data,
                          basePath |-> basePath],
                      [fn |-> "executeTransform", pc |-> "run", transform |-> fn,
                       data |-> data, basePath |-> basePath])
    /\ ncalls' = ncalls + 1
    /\ UNCHANGED <<pools, sessions, execStates, nodeStates, approvals, llmExecutions,
                   toolCallLogs, workflows, consumedAt, providerCalls>>

executeTransform_run(p) ==
    /\ At(p, "executeTransform", "run")
    /\ procs' = Finish(p, executeTransform(Top(p).transform, Top(p).data, Top(p).basePath))
    /\ UNCHANGED <<pools, sessions, execStates, nodeStates, approvals, llmExecutions,
                   toolCallLogs, workflows, ncalls, consumedAt, providerCalls>>

(***************************************************************************)
(* Storage adapter: budget pools.                                          *)
(***************************************************************************)
PoolExists(id) == id \in DOMAIN pools

\* prisma.budgetPool.create: the primary key is unique, and a parentPoolId
\* must reference a row of the table (the row being inserted included).
CanCreateBudgetPool(pool) ==
    /\ ~PoolExists(pool.id)
    /\ pool.parentPoolId # NoId => (PoolExists(pool.parentPoolId) \/ pool.parentPoolId = pool.id)

createBudgetPool(pool) == pools @@ (pool.id :> pool)

\* prisma.budgetPool.update: only the fields given are written.
updateBudgetPool(id, fields) ==
    [pools EXCEPT ![id] = [f \in DOMAIN @ |-> IF f \in DOMAIN fields THEN fields[f] ELSE @[f]]]

(***************************************************************************)
(* BudgetPoolManager.                                                      *)
(***************************************************************************)
NewPool(id, totalBudget, parentPoolId) ==
    [id |-> id,
     parentPoolId |-> parentPoolId,
     totalBudget |-> totalBudget,
     usedBudget |-> 0,
     remainingBudget |-> totalBudget,
     status |-> "active"]

\* createPool: one store write.
createPool(id, totalBudget, parentPoolId) ==
    /\ ncalls < MaxCalls
    /\ CanCreateBudgetPool(NewPool(id, totalBudget, parentPoolId))
    /\ pools' = createBudgetPool(NewPool(id, totalBudget, parentPoolId))
    /\ consumedAt' = consumedAt @@ (id :> 0)
    /\ ncalls' = ncalls + 1
    /\ UNCHANGED <<sessions, execStates, nodeStates, approvals, llmExecutions, workflows,
                   procs, providerCalls, toolCallLogs>>

ConsumeFrame(poolId, amount) ==
    [fn |-> "consumeBudget", pc |-> "get", poolId |-> poolId, amount |-> amount,
     pool |-> Undefined]

\* What the pool read by consumeBudget lets it do: the error it throws, or none.
ConsumeError(poolId, amount) ==
    IF ~PoolExists(poolId) THEN Err("Budget pool not found", poolId)
    ELSE IF pools[poolId].status # "active" THEN Err("Budget pool is not active", poolId)
    ELSE IF pools[poolId].remainingBudget < amount THEN Err("Insufficient budget in pool", poolId)
    ELSE Undefined

ConsumeStatus(remainingBudget) == IF remainingBudget <= 0 THEN "exhausted" ELSE "active"

\* The row consumeBudget writes, computed from the row it read.
ConsumeUpdate(pool, amount) ==
    [usedBudget |-> pool.usedBudget + amount,
     remainingBudget |-> pool.remainingBudget - amount,
     status |-> ConsumeStatus(pool.remainingBudget - amount)]

\* consumeBudget, first await: getBudgetPool and the three guards.
consumeBudget_get(p) ==
    /\ At(p, "consumeBudget", "get")
    /\ LET f == Top(p)
           e == ConsumeError(f.poolId, f.amount)
       IN IF e # Undefined
          THEN procs' = Finish(p, Throw(e))
          ELSE procs' = SetTop(p, [f EXCEPT !.pc = "update", !.pool = pools[f.poolId]])
    /\ UNCHANGED <<storeVars, workflows, ncalls, consumedAt, providerCalls>>

\* A consumeBudget that writes the pool it was called on and stops there.
consumeBudget_updateOnly(p) ==
    /\ At(p, "consumeBudget", "update")
    /\ consumedAt[Top(p).poolId] + Top(p).amount <= MaxConsumed
    /\ LET f == Top(p)
       IN /\ pools' = updateBudgetPool(f.poolId, ConsumeUpdate(f.pool, f.amount))
          /\ consumedAt' = [consumedAt EXCEPT ![f.poolId] = @ + f.amount]
          /\ procs' = Wrote(Finish(p, Return(Undefined)), p, pools')
    /\ UNCHANGED <<sessions, execStates, nodeStates, approvals, llmExecutions, workflows,
                   ncalls, providerCalls, toolCallLogs>>

\* consumeBudget, second await: updateBudgetPool, then the parent's turn.
consumeBudget_update(p) ==
    /\ At(p, "consumeBudget", "update")
    /\ consumedAt[Top(p).poolId] + Top(p).amount <= MaxConsumed
    /\ LET f == Top(p)
       IN /\ pools' = updateBudgetPool(f.poolId, ConsumeUpdate(f.pool, f.amount))
          /\ consumedAt' = [consumedAt EXCEPT ![f.poolId] = @ + f.amount]
          /\ IF f.pool.parentPoolId # NoId
             THEN procs' = Wrote(SetTop(p, ConsumeFrame(f.pool.parentPoolId, f.amount)), p, pools')
             ELSE procs' = Wrote(Finish(p, Return(Undefined)), p, pools')
    /\ UNCHANGED <<sessions, execStates, nodeStates, approvals, llmExecutions, workflows,
                   ncalls, providerCalls, toolCallLogs>>

IncreaseFrame(poolId, amount) ==
    [fn |-> "increaseBudget", pc |-> "get", poolId |-> poolId, amount |-> amount,
     pool |-> Undefined]

\* An increaseBudget that never touches the status.
IncreaseStatus_kept(remainingBudget, status) == status

IncreaseStatus(remainingBudget, status) == IF remainingBudget > 0 THEN "active" ELSE status

IncreaseUpdate(pool, amount) ==
    [totalBudget |-> pool.totalBudget + amount,
     remainingBudget |-> pool.remainingBudget + amount,
     status |-> IncreaseStatus(pool.remainingBudget + amount, pool.status)]

increaseBudget_get(p) ==
    /\ At(p, "increaseBudget", "get")
    /\ LET f == Top(p)
       IN IF ~PoolExists(f.poolId)
          THEN procs' = Finish(p, Throw(Err("Budget pool not found", f.poolId)))
          ELSE procs' = SetTop(p, [f EXCEPT !.pc = "update", !.pool = pools[f.poolId]])
    /\ UNCHANGED <<storeVars, workflows, ncalls, consumedAt, providerCalls>>

increaseBudget_update(p) ==
    /\ At(p, "increaseBudget", "update")
    /\ LET f == Top(p)
       IN /\ pools' = updateBudgetPool(f.poolId, IncreaseUpdate(f.pool, f.amount))
          /\ procs' = Wrote(Finish(p, Return(Undefined)), p, pools')
    /\ UNCHANGED <<sessions, execStates, nodeStates, approvals, llmExecutions, workflows,
                   ncalls, consumedAt, providerCalls, toolCallLogs>>

\* suspendPool: one store write; the update of a missing row throws.
suspendPool(poolId) ==
    /\ ncalls < MaxCalls
    /\ PoolExists(poolId)
    /\ pools' = updateBudgetPool(poolId, [status |-> "suspended"])
    /\ ncalls' = ncalls + 1
    /\ UNCHANGED <<sessions, execStates, nodeStates, approvals, llmExecutions, workflows,
                   procs, consumedAt, providerCalls, toolCallLogs>>

\* A reactivatePool that does not look at remainingBudget.
reactivatePool_getAlways(p) ==
    /\ At(p, "reactivatePool", "get")
    /\ LET f == Top(p)
       IN IF ~PoolExists(f.poolId)
          THEN procs' = Finish(p, Throw(Err("Budget pool not found", f.poolId)))
          ELSE procs' = SetTop(p, [f EXCEPT !.pc = "update", !.pool = pools[f.poolId]])
    /\ UNCHANGED <<storeVars, workflows, ncalls, consumedAt, providerCalls>>

reactivatePool_get(p) ==
    /\ At(p, "reactivatePool", "get")
    /\ LET f == Top(p)
       IN IF ~PoolExists(f.poolId)
          THEN procs' = Finish(p, Throw(Err("Budget pool not found", f.poolId)))
          ELSE IF pools[f.poolId].remainingBudget > 0
          THEN procs' = SetTop(p, [f EXCEPT !.pc = "update", !.pool = pools[f.poolId]])
          ELSE procs' = Finish(p, Return(Undefined))
    /\ UNCHANGED <<storeVars, workflows, ncalls, consumedAt, providerCalls>>

reactivatePool_update(p) ==
    /\ At(p, "reactivatePool", "update")
    /\ pools' = updateBudgetPool(Top(p).poolId, [status |-> "active"])
    /\ procs' = Wrote(Finish(p, Return(Undefined)), p, pools')
    /\ UNCHANGED <<sessions, execStates, nodeStates, approvals, llmExecutions, workflows,
                   ncalls, consumedAt, providerCalls, toolCallLogs>>

\* A caller starts consumeBudget, increaseBudget or reactivatePool.
BudgetCall(op, poolId, amount) ==
    [op |-> op, poolId |-> poolId, amount |-> amount, wrote |-> {}]

\* before is an observer: the table as the call found it.
ConsumeCall(poolId, amount) ==
    [op |-> "consumeBudget", poolId |-> poolId, amount |-> amount, wrote |-> {},
     before |-> pools]

StartConsume(p, poolId, amount) ==
    /\ ~Active(p)
    /\ ncalls < MaxCalls
    /\ procs' = Begin(p, ConsumeCall(poolId, amount), ConsumeFrame(poolId, amount))
    /\ ncalls' = ncalls + 1
    /\ UNCHANGED <<storeVars, workflows, consumedAt, providerCalls>>

StartIncrease(p, poolId, amount) ==
    /\ ~Active(p)
    /\ ncalls < MaxCalls
    /\ PoolExists(poolId) => pools[poolId].totalBudget + amount <= MaxBudget
    /\ procs' = Begin(p, BudgetCall("increaseBudget", poolId, amount),
                      IncreaseFrame(poolId, amount))
    /\ ncalls' = ncalls + 1
    /\ UNCHANGED <<storeVars, workflows, consumedAt, providerCalls>>

StartReactivate(p, poolId) ==
    /\ ~Active(p)
    /\ ncalls < MaxCalls
    /\ procs' = Begin(p, BudgetCall("reactivatePool", poolId, 0),
                      [fn |-> "reactivatePool", pc |-> "get", poolId |-> poolId,
                       pool |-> Undefined])
    /\ ncalls' = ncalls + 1
    /\ UNCHANGED <<storeVars, workflows, consumedAt, providerCalls>>

\* A caller that awaits consumeBudget(poolId, amount) and then, when that
\* returned, increaseBudget(poolId, amount). before is an observer.
StartConsumeThenIncrease(p, poolId, amount) ==
    /\ ~Active(p)
    /\ ncalls < MaxCalls
    /\ PoolExists(poolId) => pools[poolId].totalBudget + amount <= MaxBudget
    /\ procs' = Begin(p, [op |-> "consumeThenIncrease", poolId |-> poolId,
                          amount |-> amount, wrote |-> {}, before |-> pools],
                      [fn |-> "consumeThenIncrease", pc |-> "consume",
                       poolId |-> poolId, amount |-> amount])
    /\ ncalls' = ncalls + 1
    /\ UNCHANGED <<storeVars, workflows, consumedAt, providerCalls>>

consumeThenIncrease_consume(p) ==
    /\ At(p, "consumeThenIncrease", "consume")
    /\ LET f == Top(p)
       IN procs' = Call(p, [f EXCEPT !.pc = "increase"], ConsumeFrame(f.poolId, f.amount))
    /\ UNCHANGED <<storeVars, workflows, ncalls, consumedAt, providerCalls>>

\* The error of the consume is the caller's; otherwise the increase follows.
consumeThenIncrease_increase(p) ==
    /\ At(p, "consumeThenIncrease", "increase")
    /\ LET f == Top(p)
       IN procs' = IF procs[p].ret.kind = "throw"
                   THEN Finish(p, procs[p].ret)
                   ELSE Call(p, [f EXCEPT !.pc = "done"], IncreaseFrame(f.poolId, f.amount))
    /\ UNCHANGED <<storeVars, workflows, ncalls, consumedAt, providerCalls>>

consumeThenIncrease_done(p) ==
    /\ At(p, "consumeThenIncrease", "done")
    /\ procs' = Finish(p, procs[p].ret)
    /\ UNCHANGED <<storeVars, workflows, ncalls, consumedAt, providerCalls>>

\* checkBudget: one read of the pool; false when it is not active, else
\* whether its remainingBudget covers the amount.
checkBudget_get(p) ==
    /\ At(p, "checkBudget", "get")
    /\ LET f == Top(p)
       IN procs' =
            IF ~PoolExists(f.poolId)
            THEN Finish(p, Throw(Err("Budget pool not found", f.poolId)))
            ELSE IF pools[f.poolId].status # "active"
            THEN Finish(p, Return(Bool(FALSE)))
            ELSE Finish(p, Return(Bool(pools[f.poolId].remainingBudget >= f.amount)))
    /\ UNCHANGED <<storeVars, workflows, ncalls, consumedAt, providerCalls>>

\* A caller that awaits checkBudget(poolId, amount) and then, whatever the
\* answer, consumeBudget(poolId, amount). checked is an observer: the answer
\* of checkBudget.
StartCheckThenConsume(p, poolId, amount) ==
    /\ ~Active(p)
    /\ ncalls < MaxCalls
    /\ procs' = Begin(p, [op |-> "checkThenConsume", poolId |-> poolId,
                          amount |-> amount, wrote |-> {}, before |-> pools,
                          checked |-> NoRet],
                      [fn |-> "checkThenConsume", pc |-> "check",
                       poolId |-> poolId, amount |-> amount])
    /\ ncalls' = ncalls + 1
    /\ UNCHANGED <<storeVars, workflows, consumedAt, providerCalls>>

checkThenConsume_check(p) ==
    /\ At(p, "checkThenConsume", "check")
    /\ LET f == Top(p)
       IN procs' = Call(p, [f EXCEPT !.pc = "consume"],
                        [fn |-> "checkBudget", pc |-> "get", poolId |-> f.poolId,
                         amount |-> f.amount])
    /\ UNCHANGED <<storeVars, workflows, ncalls, consumedAt, providerCalls>>

\* The error of the check is the caller's; otherwise the consume follows.
checkThenConsume_consume(p) ==
    /\ At(p, "checkThenConsume", "consume")
    /\ LET f == Top(p)
       IN procs' =
            IF procs[p].ret.kind = "throw"
            THEN [Finish(p, procs[p].ret) EXCEPT ![p].call.checked = procs[p].ret]
            ELSE [Call(p, [f EXCEPT !.pc = "done"], ConsumeFrame(f.poolId, f.amount))
                     EXCEPT ![p].call.checked = procs[p].ret]
    /\ UNCHANGED <<storeVars, workflows, ncalls, consumedAt, providerCalls>>

checkThenConsume_done(p) ==
    /\ At(p, "checkThenConsume", "done")
    /\ procs' = Finish(p, procs[p].ret)
    /\ UNCHANGED <<storeVars, workflows, ncalls, consumedAt, providerCalls>>

(***************************************************************************)
(* Storage adapter: sessions, execution state, node states, approvals.     *)
(***************************************************************************)
SessionExists(id) == id \in DOMAIN sessions

\* prisma.session.create: the primary key is unique and workflowId references
\* a stored workflow.
CanCreateSession(session) ==
    /\ ~SessionExists(session.id)
    /\ session.workflowId \in DOMAIN workflows

\* The snapshot column holds JSON.stringify(workflowSnapshot); a definition
\* here has no field JSON would drop, so the text parses back to it.
createSession(session) == sessions @@ (session.id :> session)

updateSession(id, status) == [sessions EXCEPT ![id].status = status]

\* prisma.executionState.upsert; the node states given are written one by one
\* (the engine always passes none).
saveExecutionState(state) ==
    IF state.sessionId \in DOMAIN execStates
    THEN [execStates EXCEPT ![state.sessionId].status = state.status]
    ELSE execStates @@ (state.sessionId :> state)

\* The columns updateNodeState derives from the state it is given.
NodeStateRow(state) ==
    [status |-> state.status,
     input |-> StoredJson(state.input),
     output |-> StoredJson(state.output),
     error |-> state.error,
     pendingApprovalId |-> state.pendingApprovalId]

\* prisma.nodeExecutionState.upsert on (sessionId, nodeId): an update leaves
\* the columns whose value is undefined as they are.
updateNodeState(sessionId, nodeId, state) ==
    LET key == <<sessionId, nodeId>>
        row == NodeStateRow(state)
    IN IF key \in DOMAIN nodeStates
       THEN [nodeStates EXCEPT ![key] =
                [row EXCEPT !.error = IF row.error = Undefined THEN nodeStates[key].error ELSE @,
                            !.pendingApprovalId =
                                IF row.pendingApprovalId = NoId
                                THEN nodeStates[key].pendingApprovalId ELSE @]]
       ELSE nodeStates @@ (key :> row)

createApprovalRequest(request) == approvals @@ (request.id :> request)

\* storage.approveRequest / rejectRequest: prisma update of the row; notes
\* that are undefined leave resolutionNotes as they are.
ResolveRequest(id, status, by, notes) ==
    [approvals EXCEPT ![id] =
        [@ EXCEPT !.status = status,
                  !.resolved = TRUE,
                  !.resolvedBy = by,
                  !.resolutionNotes = IF notes = NoId THEN @ ELSE notes]]

\* getSession: the row, its snapshot parsed; null when there is none.
getSession(id) == IF SessionExists(id) THEN sessions[id] ELSE Null

\* getApprovalRequest: the row, its context parsed; null when there is none.
getApprovalRequest(id) == IF id \in DOMAIN approvals THEN approvals[id] ELSE Null

\* getExecutionState: null without an execution_states row; otherwise the
\* node_execution_states rows of the session by node id, the JSON columns
\* read back as StoredJson left them.
getExecutionState(sessionId) ==
    IF sessionId \notin DOMAIN execStates THEN Null
    ELSE [sessionId |-> sessionId,
          status |-> execStates[sessionId].status,
          nodeStates |-> [n \in {k[2] : k \in {j \in DOMAIN nodeStates : j[1] = sessionId}} |->
                            nodeStates[<<sessionId, n>>]]]

\* The adapter called directly, one store call each; a call the store rejects
\* (unique key, foreign key, missing row) changes nothing.
adapter_createSession(session) ==
    /\ ncalls < MaxCalls
    /\ CanCreateSession(session)
    /\ sessions' = createSession(session)
    /\ ncalls' = ncalls + 1
    /\ UNCHANGED <<pools, execStates, nodeStates, approvals, llmExecutions, toolCallLogs,
                   workflows, procs, consumedAt, providerCalls>>

\* An updateWorkflow that rewrites the snapshot of the workflow's sessions.
adapter_updateWorkflowAndSnapshots(id, workflow) ==
    /\ ncalls < MaxCalls
    /\ id \in DOMAIN workflows
    /\ workflows' = [workflows EXCEPT ![id] = workflow]
    /\ sessions' = [sid \in DOMAIN sessions |->
                        IF sessions[sid].workflowId = id
                        THEN [sessions[sid] EXCEPT !.workflowSnapshot = workflow]
                        ELSE sessions[sid]]
    /\ ncalls' = ncalls + 1
    /\ UNCHANGED <<pools, execStates, nodeStates, approvals, llmExecutions, toolCallLogs,
                   procs, consumedAt, providerCalls>>

\* updateWorkflow with a new definition: the workflows row alone.
adapter_updateWorkflow(id, workflow) ==
    /\ ncalls < MaxCalls
    /\ id \in DOMAIN workflows
    /\ workflows' = [workflows EXCEPT ![id] = workflow]
    /\ ncalls' = ncalls + 1
    /\ UNCHANGED <<storeVars, procs, consumedAt, providerCalls>>

\* deleteWorkflow: sessions.workflowId is ON DELETE SET NULL.
adapter_deleteWorkflow(id) ==
    /\ ncalls < MaxCalls
    /\ id \in DOMAIN workflows
    /\ workflows' = [w \in DOMAIN workflows \ {id} |-> workflows[w]]
    /\ sessions' = [sid \in DOMAIN sessions |->
                        IF sessions[sid].workflowId = id
                        THEN [sessions[sid] EXCEPT !.workflowId = NoId]
                        ELSE sessions[sid]]
    /\ ncalls' = ncalls + 1
    /\ UNCHANGED <<pools, execStates, nodeStates, approvals, llmExecutions, toolCallLogs,
                   procs, consumedAt, providerCalls>>

adapter_saveExecutionState(state) ==
    /\ ncalls < MaxCalls
    /\ SessionExists(state.sessionId)
    /\ execStates' = saveExecutionState(state)
    /\ ncalls' = ncalls + 1
    /\ UNCHANGED <<pools, sessions, nodeStates, approvals, llmExecutions, toolCallLogs,
                   workflows, procs, consumedAt, providerCalls>>

adapter_updateNodeState(sessionId, nodeId, state) ==
    /\ ncalls < MaxCalls
    /\ SessionExists(sessionId)
    /\ nodeStates' = updateNodeState(sessionId, nodeId, state)
    /\ ncalls' = ncalls + 1
    /\ UNCHANGED <<pools, sessions, execStates, approvals, llmExecutions, toolCallLogs,
                   workflows, procs, consumedAt, providerCalls>>

(***************************************************************************)
(* Workflow definitions.                                                   *)
(***************************************************************************)
Edge(from, to) == [from |-> from, to |-> to, previousNodeMessageOutputFieldName |-> NoId]

Group(nodes, edges, entryPoint, exitPoint) ==
    [type |-> "group", nodes |-> nodes, edges |-> edges,
     entryPoint |-> entryPoint, exitPoint |-> exitPoint]

Transform(fn) == [type |-> "transform", fn |-> fn]

LLM(requiresHumanReview) == [type |-> "llm", requiresHumanReview |-> requiresHumanReview]

CallWorkflow(workflowRef, inputMapping, outputMapping, requiresApproval) ==
    [type |-> "callWorkflow", workflowRef |-> workflowRef,
     inputMapping |-> inputMapping, outputMapping |-> outputMapping,
     requiresApproval |-> requiresApproval]

\* A mapping that is not set.
NoMapping == [type |-> "none"]

Greet == Transform(Object([greeting |-> Const(Str("hi")), name |-> Get(<<"who">>)]))

Echo == Transform(Get(<<>>))

\* A group inside the root group, and a sibling whose local id is the dotted
\* path of the group's child; node ids are arbitrary strings.
Inner == Group([b |-> Echo], <<Edge("b", "exit")>>, "b", "exit")

DottedNodes == ("a" :> Inner) @@ ("a.b" :> Echo)

\* The workflows of the specification's scenarios and of the package's
\* documentation, whose entryPoint and exitPoint are sentinels, and the same
\* graphs with the first node as entryPoint.
Catalogue ==
    [scenarioA |-> Group([T |-> Greet],
                         <<Edge("entry", "T"), Edge("T", "exit")>>, "entry", "exit"),
     scenarioB |-> Group([a |-> Echo, b |-> Echo],
                         <<Edge("entry", "a"), Edge("a", "b"), Edge("b", "a")>>,
                         "entry", "exit"),
     scenarioD |-> Group([llm |-> LLM(TRUE)],
                         <<Edge("entry", "llm"), Edge("llm", "exit")>>, "entry", "exit"),
     greet |-> Group([T |-> Greet], <<Edge("T", "exit")>>, "T", "exit"),
     cycle |-> Group([a |-> Echo, b |-> Echo],
                     <<Edge("a", "b"), Edge("b", "a")>>, "a", "exit"),
     review |-> Group([llm |-> LLM(TRUE)], <<Edge("llm", "exit")>>, "llm", "exit"),
     chat |-> Group([llm |-> LLM(FALSE)], <<Edge("llm", "exit")>>, "llm", "exit"),
     dotted |-> Group(DottedNodes, <<Edge("a", "a.b"), Edge("a.b", "exit")>>, "a", "exit"),
     gated |-> Group([call |-> CallWorkflow("greet", NoMapping, NoMapping, TRUE)],
                     <<Edge("call", "exit")>>, "call", "exit"),
     outer |-> Group([call |-> CallWorkflow("greet", Object([who |-> Get(<<>>)]),
                                            Get(<<"name">>), FALSE)],
                     <<Edge("call", "exit")>>, "call", "exit"),
     echo |-> Group([T |-> Echo], <<Edge("T", "exit")>>, "T", "exit"),
     wrap |-> Group([call |-> CallWorkflow("echo", Get(<<"payload">>),
                                           Object([wrapped |-> Get(<<>>)]), FALSE)],
                    <<Edge("call", "exit")>>, "call", "exit"),
     plain |-> Group([call |-> CallWorkflow("echo", NoMapping, NoMapping, FALSE)],
                     <<Edge("call", "exit")>>, "call", "exit"),
     lost |-> Group([call |-> CallWorkflow("missing", NoMapping, NoMapping, FALSE)],
                    <<Edge("call", "exit")>>, "call", "exit"),
     gatedLost |-> Group([call |-> CallWorkflow("missing", NoMapping, NoMapping, TRUE)],
                         <<Edge("call", "exit")>>, "call", "exit")]

WorkflowIds == DOMAIN Catalogue

Inputs == {Str("x"), Obj([who |-> Str("Ada")]), Obj([payload |-> Num(42)])}

\* What the provider answers: text with or without usage, or a failure.
LLMResults ==
    {[success |-> TRUE, text |-> "out", usage |-> Undefined, error |-> NoId],
     [success |-> TRUE, text |-> "out", usage |-> [totalTokens |-> 1], error |-> NoId],
     [success |-> FALSE, text |-> NoId, usage |-> Undefined, error |-> "provider error"]}

(***************************************************************************)
(* executeLLM: the tools it wraps for the provider.                        *)
(***************************************************************************)
\* The tools an executeLLM call is given: lookup has an execute function,
\* inert has none.
Tools == [lookup |-> [execute |-> TRUE], inert |-> [execute |-> FALSE]]

ToolInputs == {Obj([q |-> Str("x")])}

\* What a tool's own execute function does: it returns a result or throws.
ToolOutcomes == {Return(Str("found")), Return(Num(0)), Throw(Err("tool failed", NoId))}

\* The executionId the wrapper gives its log rows, `${sessionId}-${nodeId}`,
\* and the id under which executeLLMNode saves the execution of a node,
\* `llm-${sessionId}-${nodeId}-${Date.now()}`, without its time stamp.
ToolExecutionId(sessionId, nodeId) == sessionId \o "-" \o nodeId

LLMExecutionId(sessionId, nodeId) == "llm-" \o sessionId \o "-" \o nodeId

\* The row logToolCall writes.
ToolCallLog(sessionId, nodeId, name, input, result) ==
    [executionId |-> <<sessionId, nodeId>>,
     toolName |-> name,
     args |-> JsonRoundTrip(input),
     result |-> StoredJson(result)]

\* The provider invokes the wrapped tool name of an executeLLM call made with
\* or without a store, a session id and a node id. toolResult is an observer:
\* what the tool's own execute function handed back, once it has.
StartToolCall(p, name, input, storage, sessionId, nodeId) ==
    /\ ~Active(p)
    /\ ncalls < MaxCalls
    /\ procs' = Begin(p, [op |-> "toolExecute", name |-> name, input |-> input,
                          toolResult |-> NoRet],
                      [fn |-> "toolExecute", pc |-> "execute", name |-> name,
                       input |-> input, storage |-> storage, sessionId |-> sessionId,
                       nodeId |-> nodeId, result |-> Undefined])
    /\ ncalls' = ncalls + 1
    /\ UNCHANGED <<storeVars, workflows, consumedAt, providerCalls>>

\* The wrapper up to the end of await toolDef.execute(...).
executeLLM_toolExecute(p) ==
    /\ At(p, "toolExecute", "execute")
    /\ LET f == Top(p)
       IN IF ~Tools[f.name].execute
          THEN procs' = Finish(p, Throw(Err("Tool has no execute function", f.name)))
          ELSE \E outcome \in ToolOutcomes :
                 LET seen == [procs EXCEPT ![p].call.toolResult = outcome]
                     logs == f.storage /\ f.sessionId # NoId /\ f.nodeId # NoId
                 IN procs' =
                      IF outcome.kind = "throw"
                      THEN [seen EXCEPT ![p].stack = <<>>, ![p].ret = outcome]
                      ELSE IF logs
                      THEN [seen EXCEPT ![p].stack =
                                <<[f EXCEPT !.pc = "logToolCall", !.result = outcome.val]>>]
                      ELSE [seen EXCEPT ![p].stack = <<>>, ![p].ret = outcome]
    /\ UNCHANGED <<storeVars, workflows, ncalls, consumedAt, providerCalls>>

\* await storage.logToolCall(...), then return result: the store writes the
\* row, or its create rejects and the rejection is the wrapper's.
executeLLM_logToolCall(p) ==
    /\ At(p, "toolExecute", "logToolCall")
    /\ LET f == Top(p)
       IN \E stored \in BOOLEAN :
            IF stored
            THEN /\ toolCallLogs' = toolCallLogs \cup
                        {ToolCallLog(f.sessionId, f.nodeId, f.name, f.input, f.result)}
                 /\ procs' = Finish(p, Return(f.result))
            ELSE /\ toolCallLogs' = toolCallLogs
                 /\ procs' = Finish(p, Throw(Err("logToolCall failed", f.name)))
    /\ UNCHANGED <<pools, sessions, execStates, nodeStates, approvals, llmExecutions,
                   workflows, ncalls, consumedAt, providerCalls>>

(***************************************************************************)
(* WorkflowEngine.                                                         *)
(***************************************************************************)
WaitingStatuses ==
    {"waiting_for_human_review", "waiting_for_budget_approval",
     "waiting_for_workflow_approval"}

\* `session-${Date.now()}`: the clock is the number of sessions so far.
GeneratedSessionId == "session-" \o ToString(Cardinality(DOMAIN sessions))

\* `approval-${sessionId}-${nodeId}-${Date.now()}`
GeneratedApprovalId(sessionId, nodeId) ==
    "approval-" \o sessionId \o "-" \o nodeId \o "-" \o ToString(Cardinality(DOMAIN approvals))

ExecuteWorkflowFrame(workflow, workflowId, input, sessionId, budgetPoolId) ==
    [fn |-> "executeWorkflow", pc |-> "createSession", workflow |-> workflow,
     workflowId |-> workflowId, input |-> input,
     sessionId |-> IF sessionId # NoId THEN sessionId ELSE GeneratedSessionId,
     budgetPoolId |-> budgetPoolId, output |-> Undefined, error |-> Undefined]

ExecuteNodeFrame(node, nodeId, input, sessionId, budgetPoolId) ==
    [fn |-> "executeNode", pc |-> "running", node |-> node, nodeId |-> nodeId,
     input |-> input, sessionId |-> sessionId, budgetPoolId |-> budgetPoolId]

\* The nodeState object executeNode builds and spreads into its later writes.
NodeState(f, status, output, error) ==
    [nodeId |-> f.nodeId, status |-> status, input |-> f.input, output |-> output,
     error |-> error, pendingApprovalId |-> NoId]

\* app.executeWorkflow: load the stored workflow, then run the engine on it.
app_executeWorkflow(p) ==
    /\ At(p, "app.executeWorkflow", "getWorkflow")
    /\ LET f == Top(p)
       IN IF f.workflowId \notin DOMAIN workflows
          THEN procs' = Finish(p, Throw(Err("Workflow not found", f.workflowId)))
          ELSE procs' = SetTop(p, ExecuteWorkflowFrame(workflows[f.workflowId],
                                    f.workflowId, f.input, f.sessionId, f.budgetPoolId))
    /\ UNCHANGED <<storeVars, workflows, ncalls, consumedAt, providerCalls>>

\* executeWorkflow: createSession, outside the try block.
executeWorkflow_createSession(p) ==
    /\ At(p, "executeWorkflow", "createSession")
    /\ LET f == Top(p)
           session == [id |-> f.sessionId, workflowId |-> f.workflowId,
                       workflowSnapshot |-> f.workflow, status |-> "running"]
       IN IF CanCreateSession(session)
          THEN /\ sessions' = createSession(session)
               /\ procs' = [SetTop(p, [f EXCEPT !.pc = "saveExecutionState"])
                               EXCEPT ![p].call.session =
                                   IF Depth(p) = 1 THEN f.sessionId ELSE @]
          ELSE /\ procs' = Finish(p, Throw(Err("Unique constraint failed", f.sessionId)))
               /\ UNCHANGED sessions
    /\ UNCHANGED <<pools, execStates, nodeStates, approvals, llmExecutions, workflows,
                   ncalls, consumedAt, providerCalls, toolCallLogs>>

executeWorkflow_saveExecutionState(p) ==
    /\ At(p, "executeWorkflow", "saveExecutionState")
    /\ LET f == Top(p)
       IN /\ execStates' = saveExecutionState([sessionId |-> f.sessionId,
                                budgetPoolId |-> f.budgetPoolId, status |-> "running"])
          /\ procs' = Call(p, [f EXCEPT !.pc = "afterRoot"],
                           ExecuteNodeFrame(f.workflow.root, "root", f.input,
                                            f.sessionId, f.budgetPoolId))
    /\ UNCHANGED <<pools, sessions, nodeStates, approvals, llmExecutions, workflows,
                   ncalls, consumedAt, providerCalls, toolCallLogs>>

\* The root node returned: the session is completed.
executeWorkflow_updateSessionCompleted(p) ==
    /\ At(p, "executeWorkflow", "afterRoot")
    /\ procs[p].ret.kind = "return"
    /\ LET f == Top(p)
       IN /\ sessions' = updateSession(f.sessionId, "completed")
          /\ procs' = SetTop(p, [f EXCEPT !.pc = "saveCompleted", !.output = procs[p].ret.val])
    /\ UNCHANGED <<pools, execStates, nodeStates, approvals, llmExecutions, workflows,
                   ncalls, consumedAt, providerCalls, toolCallLogs>>

executeWorkflow_saveCompleted(p) ==
    /\ At(p, "executeWorkflow", "saveCompleted")
    /\ LET f == Top(p)
       IN /\ execStates' = saveExecutionState([sessionId |-> f.sessionId,
                                budgetPoolId |-> f.budgetPoolId, status |-> "completed"])
          /\ procs' = Finish(p, Return([sessionId |-> f.sessionId, output |-> f.output,
                                        success |-> TRUE]))
    /\ UNCHANGED <<pools, sessions, nodeStates, approvals, llmExecutions, workflows,
                   ncalls, consumedAt, providerCalls, toolCallLogs>>

\* A catch block that leaves the session status as the run left it.
executeWorkflow_keepSessionOnThrow(p) ==
    /\ At(p, "executeWorkflow", "afterRoot")
    /\ procs[p].ret.kind = "throw"
    /\ procs' = SetTop(p, [Top(p) EXCEPT !.pc = "saveFailed", !.error = procs[p].ret.err])
    /\ UNCHANGED <<storeVars, workflows, ncalls, consumedAt, providerCalls>>

\* The catch block: whatever the root node threw, the session is failed.
executeWorkflow_updateSessionFailed(p) ==
    /\ At(p, "executeWorkflow", "afterRoot")
    /\ procs[p].ret.kind = "throw"
    /\ LET f == Top(p)
       IN /\ sessions' = updateSession(f.sessionId, "failed")
          /\ procs' = SetTop(p, [f EXCEPT !.pc = "saveFailed", !.error = procs[p].ret.err])
    /\ UNCHANGED <<pools, execStates, nodeStates, approvals, llmExecutions, workflows,
                   ncalls, consumedAt, providerCalls, toolCallLogs>>

executeWorkflow_saveFailed(p) ==
    /\ At(p, "executeWorkflow", "saveFailed")
    /\ LET f == Top(p)
       IN /\ execStates' = saveExecutionState([sessionId |-> f.sessionId,
                                budgetPoolId |-> f.budgetPoolId, status |-> "failed"])
          /\ procs' = Finish(p, Throw(f.error))
    /\ UNCHANGED <<pools, sessions, nodeStates, approvals, llmExecutions, workflows,
                   ncalls, consumedAt, providerCalls, toolCallLogs>>

ExecuteGroupNodeFrame(node, nodeId, input, sessionId, budgetPoolId) ==
    [fn |-> "executeGroupNode", pc |-> "loop", node |-> node, nodeId |-> nodeId,
     sessionId |-> sessionId, budgetPoolId |-> budgetPoolId,
     currentNodeId |-> node.entryPoint, currentInput |-> input, executedNodes |-> {}]

ExecuteLLMNodeFrame(node, nodeId, input, sessionId, budgetPoolId) ==
    [fn |-> "executeLLMNode", pc |-> "start", node |-> node, nodeId |-> nodeId,
     input |-> input, sessionId |-> sessionId, budgetPoolId |-> budgetPoolId,
     approvalId |-> NoId, result |-> Undefined]

ExecuteCallWorkflowNodeFrame(node, nodeId, input, sessionId, budgetPoolId) ==
    [fn |-> "executeCallWorkflowNode", pc |-> "start", node |-> node, nodeId |-> nodeId,
     input |-> input, sessionId |-> sessionId, budgetPoolId |-> budgetPoolId,
     approvalId |-> NoId]

\* The switch of executeNode on node.type, up to the executor's first await.
Dispatch(p, f) ==
    LET g == [f EXCEPT !.pc = "afterBody"]
    IN CASE f.node.type = "group" ->
              Call(p, g, ExecuteGroupNodeFrame(f.node, f.nodeId, f.input,
                                                f.sessionId, f.budgetPoolId))
         [] f.node.type = "llm" ->
              Call(p, g, ExecuteLLMNodeFrame(f.node, f.nodeId, f.input,
                                              f.sessionId, f.budgetPoolId))
         [] f.node.type = "callWorkflow" ->
              Call(p, g, ExecuteCallWorkflowNodeFrame(f.node, f.nodeId, f.input,
                                                       f.sessionId, f.budgetPoolId))
         [] f.node.type = "transform" ->
              [SetTop(p, g) EXCEPT ![p].ret = executeTransform(f.node.fn, f.input, <<>>)]
         [] f.node.type \in {"stream", "generator"} ->
              [SetTop(p, g) EXCEPT ![p].ret =
                  Throw(Err("Node type is not yet implemented", f.node.type))]
         [] OTHER ->
              [SetTop(p, g) EXCEPT ![p].ret = Throw(Err("Unknown node type", f.node.type))]

\* The frame of the innermost executeWorkflow on a stack.
LastRun(stack) ==
    CHOOSE i \in 1..Len(stack) :
        /\ stack[i].fn = "executeWorkflow"
        /\ \A j \in (i + 1)..Len(stack) : stack[j].fn # "executeWorkflow"

IsGroupFrame(f) == f.fn = "executeGroupNode"

\* The place in the workflow's node tree of the node on top of a stack: the
\* local ids the enclosing groups are at, outermost first.
NodePath(stack) ==
    LET groups == SelectSeq(SubSeq(stack, LastRun(stack) + 1, Len(stack)), IsGroupFrame)
    IN [i \in 1..Len(groups) |-> groups[i].currentNodeId]

\* executeNode: the node state is written as running, then the node's
\* executor is entered. executed is an observer: the session, the qualified
\* id and the place in the tree of every node the call has executed.
executeNode_running(p) ==
    /\ At(p, "executeNode", "running")
    /\ LET f == Top(p)
       IN /\ nodeStates' = updateNodeState(f.sessionId, f.nodeId,
                                NodeState(f, "running", Undefined, Undefined))
          /\ procs' = [Dispatch(p, f) EXCEPT ![p].call.executed =
                           @ \cup {<<f.sessionId, f.nodeId, NodePath(procs[p].stack)>>}]
    /\ UNCHANGED <<pools, sessions, execStates, approvals, llmExecutions, workflows,
                   ncalls, consumedAt, providerCalls, toolCallLogs>>

\* executeNode: the executor returned.
executeNode_completed(p) ==
    /\ At(p, "executeNode", "afterBody")
    /\ procs[p].ret.kind = "return"
    /\ LET f == Top(p)
           output == procs[p].ret.val
       IN /\ nodeStates' = updateNodeState(f.sessionId, f.nodeId,
                                NodeState(f, "completed", output, Undefined))
          /\ procs' = Finish(p, Return(output))
    /\ UNCHANGED <<pools, sessions, execStates, approvals, llmExecutions, workflows,
                   ncalls, consumedAt, providerCalls, toolCallLogs>>

\* A catch block that records the failure and hands undefined on as output.
executeNode_failedReturns(p) ==
    /\ At(p, "executeNode", "afterBody")
    /\ procs[p].ret.kind = "throw"
    /\ LET f == Top(p)
           error == procs[p].ret.err
       IN /\ nodeStates' = updateNodeState(f.sessionId, f.nodeId,
                                NodeState(f, "failed", Undefined, error))
          /\ procs' = Finish(p, Return(Undefined))
    /\ UNCHANGED <<pools, sessions, execStates, approvals, llmExecutions, workflows,
                   ncalls, consumedAt, providerCalls, toolCallLogs>>

\* executeNode, the catch block: whatever the executor threw fails the node.
executeNode_failed(p) ==
    /\ At(p, "executeNode", "afterBody")
    /\ procs[p].ret.kind = "throw"
    /\ LET f == Top(p)
           error == procs[p].ret.err
       IN /\ nodeStates' = updateNodeState(f.sessionId, f.nodeId,
                                NodeState(f, "failed", Undefined, error))
          /\ procs' = Finish(p, Throw(error))
    /\ UNCHANGED <<pools, sessions, execStates, approvals, llmExecutions, workflows,
                   ncalls, consumedAt, providerCalls, toolCallLogs>>

\* node.edges.find(e => e.from === currentNodeId): the index of the first
\* such edge, 0 when there is none.
FindEdge(edges, from) ==
    IF \E i \in 1..Len(edges) : edges[i].from = from
    THEN CHOOSE i \in 1..Len(edges) :
            /\ edges[i].from = from
            /\ \A j \in 1..(i - 1) : edges[j].from # from
    ELSE 0

\* What an edge hands to the next node of the output of the previous one.
EdgeOutput(edge, output) ==
    IF edge.previousNodeMessageOutputFieldName # NoId /\ IsObjectLike(output)
    THEN GetProperty(output, edge.previousNodeMessageOutputFieldName)
    ELSE output

\* A loop head that keeps no set of executed nodes.
executeGroupNode_loopUnguarded(p) ==
    /\ At(p, "executeGroupNode", "loop")
    /\ LET f == Top(p)
           cur == f.currentNodeId
       IN procs' =
            IF cur = f.node.exitPoint
            THEN Finish(p, Return(f.currentInput))
            ELSE IF cur \notin DOMAIN f.node.nodes
            THEN Finish(p, Throw(Err("Node not found in group", cur)))
            ELSE Call(p, [f EXCEPT !.pc = "afterChild"],
                      ExecuteNodeFrame(f.node.nodes[cur], f.nodeId \o "." \o cur,
                                       f.currentInput, f.sessionId, f.budgetPoolId))
    /\ UNCHANGED <<storeVars, workflows, ncalls, consumedAt, providerCalls>>

\* executeGroupNode, the head of the while loop up to the child's executeNode.
executeGroupNode_loop(p) ==
    /\ At(p, "executeGroupNode", "loop")
    /\ LET f == Top(p)
           cur == f.currentNodeId
       IN procs' =
            IF cur = f.node.exitPoint
            THEN Finish(p, Return(f.currentInput))
            ELSE IF cur \in f.executedNodes
            THEN Finish(p, Throw(Err("Cycle detected at node", cur)))
            ELSE IF cur \notin DOMAIN f.node.nodes
            THEN Finish(p, Throw(Err("Node not found in group", cur)))
            ELSE Call(p, [f EXCEPT !.pc = "afterChild", !.executedNodes = @ \cup {cur}],
                      ExecuteNodeFrame(f.node.nodes[cur], f.nodeId \o "." \o cur,
                                       f.currentInput, f.sessionId, f.budgetPoolId))
    /\ UNCHANGED <<storeVars, workflows, ncalls, consumedAt, providerCalls>>

\* executeGroupNode, after the child: follow the first outgoing edge.
executeGroupNode_afterChild(p) ==
    /\ At(p, "executeGroupNode", "afterChild")
    /\ LET f == Top(p)
           i == FindEdge(f.node.edges, f.currentNodeId)
       IN procs' =
            IF procs[p].ret.kind = "throw"
            THEN Finish(p, procs[p].ret)
            ELSE IF i = 0
            THEN Finish(p, Throw(Err("No outgoing edge found for node", f.currentNodeId)))
            ELSE SetTop(p, [f EXCEPT !.pc = "loop",
                                     !.currentInput = EdgeOutput(f.node.edges[i], procs[p].ret.val),
                                     !.currentNodeId = f.node.edges[i].to])
    /\ UNCHANGED <<storeVars, workflows, ncalls, consumedAt, providerCalls>>

\* The approval request a gate writes.
ApprovalRequest(id, sessionId, nodeId, type, context) ==
    [id |-> id, sessionId |-> sessionId, nodeId |-> nodeId, type |-> type,
     status |-> "pending", context |-> JsonRoundTrip(Obj(context)),
     resolved |-> FALSE, resolvedBy |-> NoId, resolutionNotes |-> NoId]

executeLLMNode_noModel(p) ==
    /\ At(p, "executeLLMNode", "start")
    /\ ~procs[p].call.model
    /\ procs' = Finish(p, Throw(Err("No language model configured for LLM node execution", NoId)))
    /\ UNCHANGED <<storeVars, workflows, ncalls, consumedAt, providerCalls>>

\* A gate that sets the session waiting without having written the request.
executeLLMNode_withoutApprovalRequest(p) ==
    /\ At(p, "executeLLMNode", "start")
    /\ procs[p].call.model
    /\ Top(p).node.requiresHumanReview
    /\ procs' = SetTop(p, [Top(p) EXCEPT !.pc = "updateSession"])
    /\ UNCHANGED <<storeVars, workflows, ncalls, consumedAt, providerCalls>>

\* The human review gate: the approval request is created ...
executeLLMNode_createApprovalRequest(p) ==
    /\ At(p, "executeLLMNode", "start")
    /\ procs[p].call.model
    /\ Top(p).node.requiresHumanReview
    /\ LET f == Top(p)
           approvalId == GeneratedApprovalId(f.sessionId, f.nodeId)
       IN /\ approvals' = createApprovalRequest(
                ApprovalRequest(approvalId, f.sessionId, f.nodeId, "human_review",
                    [description |-> Str("Human review required for LLM node"),
                     llmOutput |-> f.input]))
          /\ procs' = SetTop(p, [f EXCEPT !.pc = "updateSession", !.approvalId = approvalId])
    /\ UNCHANGED <<pools, sessions, execStates, nodeStates, llmExecutions, workflows,
                   ncalls, consumedAt, providerCalls, toolCallLogs>>

\* ... the session is set waiting, and an Error is thrown.
executeLLMNode_updateSession(p) ==
    /\ At(p, "executeLLMNode", "updateSession")
    /\ LET f == Top(p)
       IN /\ sessions' = updateSession(f.sessionId, "waiting_for_human_review")
          /\ procs' = Finish(p, Throw(Err("Human review required. Approval request", f.approvalId)))
    /\ UNCHANGED <<pools, execStates, nodeStates, approvals, llmExecutions, workflows,
                   ncalls, consumedAt, providerCalls, toolCallLogs>>

\* An LLM node that may invoke the provider whether or not it requires a review.
executeLLMNode_executeLLMAlways(p) ==
    /\ At(p, "executeLLMNode", "start")
    /\ procs[p].call.model
    /\ \E result \in LLMResults :
          procs' = SetTop(p, [Top(p) EXCEPT !.pc = "saveLLMExecution", !.result = result])
    /\ providerCalls' = providerCalls \cup {<<Top(p).sessionId, Top(p).nodeId>>}
    /\ UNCHANGED <<storeVars, workflows, ncalls, consumedAt>>

\* executeLLM: the provider answers; a provider failure is a result, not a throw.
executeLLMNode_executeLLM(p) ==
    /\ At(p, "executeLLMNode", "start")
    /\ procs[p].call.model
    /\ ~Top(p).node.requiresHumanReview
    /\ \E result \in LLMResults :
          procs' = SetTop(p, [Top(p) EXCEPT !.pc = "saveLLMExecution", !.result = result])
    /\ providerCalls' = providerCalls \cup {<<Top(p).sessionId, Top(p).nodeId>>}
    /\ UNCHANGED <<storeVars, workflows, ncalls, consumedAt>>

\* saveLLMExecution, then consumeBudget when a pool and a usage are there.
executeLLMNode_saveLLMExecution(p) ==
    /\ At(p, "executeLLMNode", "saveLLMExecution")
    /\ LET f == Top(p)
           g == [f EXCEPT !.pc = "finish"]
       IN /\ llmExecutions' = llmExecutions \cup
                {[sessionId |-> f.sessionId, nodeId |-> f.nodeId,
                  success |-> f.result.success, usage |-> f.result.usage]}
          /\ procs' = IF f.budgetPoolId # NoId /\ f.result.usage # Undefined
                      THEN Call(p, g, ConsumeFrame(f.budgetPoolId, f.result.usage.totalTokens))
                      ELSE [SetTop(p, g) EXCEPT ![p].ret = Return(Undefined)]
    /\ UNCHANGED <<pools, sessions, execStates, nodeStates, approvals, workflows,
                   ncalls, consumedAt, providerCalls, toolCallLogs>>

executeLLMNode_finish(p) ==
    /\ At(p, "executeLLMNode", "finish")
    /\ LET f == Top(p)
       IN procs' =
            IF procs[p].ret.kind = "throw"
            THEN Finish(p, procs[p].ret)
            ELSE IF ~f.result.success
            THEN Finish(p, Throw(Err(f.result.error, NoId)))
            ELSE Finish(p, Return(Str(f.result.text)))
    /\ UNCHANGED <<storeVars, workflows, ncalls, consumedAt, providerCalls>>

\* A callWorkflow node that resolves workflowRef before its approval gate.
executeCallWorkflowNode_lookupFirst(p) ==
    /\ At(p, "executeCallWorkflowNode", "start")
    /\ Top(p).node.requiresApproval
    /\ LET f == Top(p)
           approvalId == GeneratedApprovalId(f.sessionId, f.nodeId)
       IN IF f.node.workflowRef \notin DOMAIN workflows
          THEN /\ procs' = Finish(p, Throw(Err("Workflow not found", f.node.workflowRef)))
               /\ UNCHANGED approvals
          ELSE /\ approvals' = createApprovalRequest(
                     ApprovalRequest(approvalId, f.sessionId, f.nodeId, "workflow_call",
                         [description |-> Str("Approval required for workflow call"),
                          workflowRef |-> Str(f.node.workflowRef)]))
               /\ procs' = SetTop(p, [f EXCEPT !.pc = "updateSession",
                                               !.approvalId = approvalId])
    /\ UNCHANGED <<pools, sessions, execStates, nodeStates, llmExecutions, workflows,
                   ncalls, consumedAt, providerCalls, toolCallLogs>>

\* The approval gate of a callWorkflow node: the request is created ...
executeCallWorkflowNode_createApprovalRequest(p) ==
    /\ At(p, "executeCallWorkflowNode", "start")
    /\ Top(p).node.requiresApproval
    /\ LET f == Top(p)
           approvalId == GeneratedApprovalId(f.sessionId, f.nodeId)
       IN /\ approvals' = createApprovalRequest(
                ApprovalRequest(approvalId, f.sessionId, f.nodeId, "workflow_call",
                    [description |-> Str("Approval required for workflow call"),
                     workflowRef |-> Str(f.node.workflowRef)]))
          /\ procs' = SetTop(p, [f EXCEPT !.pc = "updateSession", !.approvalId = approvalId])
    /\ UNCHANGED <<pools, sessions, execStates, nodeStates, llmExecutions, workflows,
                   ncalls, consumedAt, providerCalls, toolCallLogs>>

\* ... the session is set waiting, and an Error is thrown.
executeCallWorkflowNode_updateSession(p) ==
    /\ At(p, "executeCallWorkflowNode", "updateSession")
    /\ LET f == Top(p)
       IN /\ sessions' = updateSession(f.sessionId, "waiting_for_workflow_approval")
          /\ procs' = Finish(p, Throw(Err("Workflow call approval required. Approval request",
                                          f.approvalId)))
    /\ UNCHANGED <<pools, execStates, nodeStates, approvals, llmExecutions, workflows,
                   ncalls, consumedAt, providerCalls, toolCallLogs>>

\* A mapping applied to a value; a mapping that is not set hands it on.
ApplyMapping(mapping, value) ==
    IF mapping = NoMapping THEN Return(value) ELSE executeTransform(mapping, value, <<>>)

\* getWorkflow, the input mapping, and the nested executeWorkflow entered.
executeCallWorkflowNode_getWorkflow(p) ==
    /\ At(p, "executeCallWorkflowNode", "start")
    /\ ~Top(p).node.requiresApproval
    /\ LET f == Top(p)
           ref == f.node.workflowRef
           mappedInput == ApplyMapping(f.node.inputMapping, f.input)
       IN procs' =
            IF ref \notin DOMAIN workflows
            THEN Finish(p, Throw(Err("Workflow not found", ref)))
            ELSE IF mappedInput.kind = "throw"
            THEN Finish(p, mappedInput)
            ELSE Call(p, [f EXCEPT !.pc = "afterWorkflow"],
                      ExecuteWorkflowFrame(workflows[ref], ref, mappedInput.val,
                                           NoId, f.budgetPoolId))
    /\ UNCHANGED <<storeVars, workflows, ncalls, consumedAt, providerCalls>>

\* A callWorkflow node that hands the nested output on as it is.
executeCallWorkflowNode_afterWorkflowUnmapped(p) ==
    /\ At(p, "executeCallWorkflowNode", "afterWorkflow")
    /\ procs' = IF procs[p].ret.kind = "throw"
                THEN Finish(p, procs[p].ret)
                ELSE Finish(p, Return(procs[p].ret.val.output))
    /\ UNCHANGED <<storeVars, workflows, ncalls, consumedAt, providerCalls>>

\* The nested run is over: its failure is this node's, its output is mapped.
executeCallWorkflowNode_afterWorkflow(p) ==
    /\ At(p, "executeCallWorkflowNode", "afterWorkflow")
    /\ procs' = IF procs[p].ret.kind = "throw"
                THEN Finish(p, procs[p].ret)
                ELSE Finish(p, ApplyMapping(Top(p).node.outputMapping, procs[p].ret.val.output))
    /\ UNCHANGED <<storeVars, workflows, ncalls, consumedAt, providerCalls>>

\* A resume guard that turns away only the requests that were rejected.
ResumeError_unlessRejected(approvalId) ==
    IF approvalId \notin DOMAIN approvals THEN Err("Approval request not found", approvalId)
    ELSE IF approvals[approvalId].status = "rejected"
    THEN Err("Approval request is not approved", approvalId)
    ELSE Undefined

\* What the approval read by resumeSession lets it do: the error it throws, or none.
ResumeError(approvalId) ==
    IF approvalId \notin DOMAIN approvals THEN Err("Approval request not found", approvalId)
    ELSE IF approvals[approvalId].status # "approved"
    THEN Err("Approval request is not approved", approvalId)
    ELSE Undefined

\* resumeSession, first await: getApprovalRequest and the two guards.
resumeSession_get(p) ==
    /\ At(p, "resumeSession", "get")
    /\ LET f == Top(p)
           e == ResumeError(f.approvalId)
       IN IF e # Undefined
          THEN procs' = Finish(p, Throw(e))
          ELSE procs' = SetTop(p, [f EXCEPT !.pc = "update"])
    /\ UNCHANGED <<storeVars, workflows, ncalls, consumedAt, providerCalls>>

\* resumeSession, second await: updateSession; the update of a missing row throws.
resumeSession_update(p) ==
    /\ At(p, "resumeSession", "update")
    /\ LET f == Top(p)
       IN IF SessionExists(f.sessionId)
          THEN /\ sessions' = updateSession(f.sessionId, "running")
               /\ procs' = Finish(p, Return(Undefined))
          ELSE /\ procs' = Finish(p, Throw(Err("Record to update not found", f.sessionId)))
               /\ UNCHANGED sessions
    /\ UNCHANGED <<pools, execStates, nodeStates, approvals, llmExecutions, workflows,
                   ncalls, consumedAt, providerCalls, toolCallLogs>>

\* app.approveRequest: one store write; the update of a missing row throws.
approveRequest(approvalId, approvedBy, notes) ==
    /\ ncalls < MaxCalls
    /\ approvalId \in DOMAIN approvals
    /\ approvals' = ResolveRequest(approvalId, "approved", approvedBy, notes)
    /\ ncalls' = ncalls + 1
    /\ UNCHANGED <<pools, sessions, execStates, nodeStates, llmExecutions, workflows,
                   procs, consumedAt, providerCalls, toolCallLogs>>

\* app.rejectRequest: one store write; the update of a missing row throws.
rejectRequest(approvalId, rejectedBy, reason) ==
    /\ ncalls < MaxCalls
    /\ approvalId \in DOMAIN approvals
    /\ approvals' = ResolveRequest(approvalId, "rejected", rejectedBy, reason)
    /\ ncalls' = ncalls + 1
    /\ UNCHANGED <<pools, sessions, execStates, nodeStates, llmExecutions, workflows,
                   procs, consumedAt, providerCalls, toolCallLogs>>

\* A caller starts app.executeWorkflow on an app built with or without a model.
\* session is an observer: the id of the session the call created, once it has.
StartExecuteWorkflow(p, workflowId, input, sessionId, budgetPoolId, model) ==
    /\ ~Active(p)
    /\ ncalls < MaxCalls
    /\ Cardinality(DOMAIN sessions) + 2 <= MaxSessions
    /\ procs' = Begin(p, [op |-> "executeWorkflow", workflowId |-> workflowId,
                          input |-> input, model |-> model, session |-> NoId,
                          wrote |-> {}, executed |-> {}],
                      [fn |-> "app.executeWorkflow", pc |-> "getWorkflow",
                       workflowId |-> workflowId, input |-> input,
                       sessionId |-> sessionId, budgetPoolId |-> budgetPoolId])
    /\ ncalls' = ncalls + 1
    /\ UNCHANGED <<storeVars, workflows, consumedAt, providerCalls>>

\* The same call by a caller that has read the pool table first. before is an
\* observer: the pools as the run found them.
StartBudgetedWorkflow(p, workflowId, input, budgetPoolId) ==
    /\ ~Active(p)
    /\ ncalls < MaxCalls
    /\ Cardinality(DOMAIN sessions) + 2 <= MaxSessions
    /\ procs' = Begin(p, [op |-> "executeWorkflow", workflowId |-> workflowId,
                          input |-> input, model |-> TRUE, session |-> NoId,
                          wrote |-> {}, executed |-> {}, before |-> pools],
                      [fn |-> "app.executeWorkflow", pc |-> "getWorkflow",
                       workflowId |-> workflowId, input |-> input,
                       sessionId |-> NoId, budgetPoolId |-> budgetPoolId])
    /\ ncalls' = ncalls + 1
    /\ UNCHANGED <<storeVars, workflows, consumedAt, providerCalls>>

\* A caller starts engine.resumeSession.
StartResumeSession(p, sessionId, approvalId) ==
    /\ ~Active(p)
    /\ ncalls < MaxCalls
    /\ procs' = Begin(p, [op |-> "resumeSession", sessionId |-> sessionId,
                          approvalId |-> approvalId, wrote |-> {}],
                      [fn |-> "resumeSession", pc |-> "get", sessionId |-> sessionId,
                       approvalId |-> approvalId])
    /\ ncalls' = ncalls + 1
    /\ UNCHANGED <<storeVars, workflows, consumedAt, providerCalls>>

\* The ids and values the callers of the engine specification use.
SessionIds == {"s1"}

EnginePool == "parent"

Reviewers == {"u"}

Notes == {NoId, "ok"}

\* The steps of the calls in flight on p.
EngineStep(p) ==
    \/ app_executeWorkflow(p)
    \/ executeWorkflow_createSession(p)
    \/ executeWorkflow_saveExecutionState(p)
    \/ executeWorkflow_updateSessionCompleted(p)
    \/ executeWorkflow_saveCompleted(p)
    \/ executeWorkflow_updateSessionFailed(p)
    \/ executeWorkflow_saveFailed(p)
    \/ executeNode_running(p)
    \/ executeNode_completed(p)
    \/ executeNode_failed(p)
    \/ executeGroupNode_loop(p)
    \/ executeGroupNode_afterChild(p)
    \/ executeLLMNode_noModel(p)
    \/ executeLLMNode_createApprovalRequest(p)
    \/ executeLLMNode_updateSession(p)
    \/ executeLLMNode_executeLLM(p)
    \/ executeLLMNode_saveLLMExecution(p)
    \/ executeLLMNode_finish(p)
    \/ executeCallWorkflowNode_createApprovalRequest(p)
    \/ executeCallWorkflowNode_updateSession(p)
    \/ executeCallWorkflowNode_getWorkflow(p)
    \/ executeCallWorkflowNode_afterWorkflow(p)
    \/ consumeBudget_get(p)
    \/ consumeBudget_update(p)
    \/ resumeSession_get(p)
    \/ resumeSession_update(p)

\* The parents a caller of these specifications names: a pool (the one being
\* created included), or none.
Parents(id) == PoolIds \cup {NoId}

Init ==
    /\ pools = EmptyMap
    /\ sessions = EmptyMap
    /\ execStates = EmptyMap
    /\ nodeStates = EmptyMap
    /\ approvals = EmptyMap
    /\ llmExecutions = {}
    /\ toolCallLogs = {}
    /\ workflows = [id \in WorkflowIds |-> [root |-> Catalogue[id]]]
    /\ procs = [p \in ProcIds |-> IdleProc]
    /\ ncalls = 0
    /\ consumedAt = EmptyMap
    /\ providerCalls = {}

\* The budget manager called concurrently.
NextBudget ==
    \/ \E id \in PoolIds, t \in Budgets : \E par \in Parents(id) : createPool(id, t, par)
    \/ \E id \in PoolIds : suspendPool(id)
    \/ \E p \in ProcIds, id \in PoolIds, a \in Amounts : StartConsume(p, id, a)
    \/ \E p \in ProcIds, id \in PoolIds, a \in Amounts : StartIncrease(p, id, a)
    \/ \E p \in ProcIds, id \in PoolIds : StartReactivate(p, id)
    \/ \E p \in ProcIds : consumeBudget_get(p)
    \/ \E p \in ProcIds : consumeBudget_update(p)
    \/ \E p \in ProcIds : increaseBudget_get(p)
    \/ \E p \in ProcIds : increaseBudget_update(p)
    \/ \E p \in ProcIds : reactivatePool_get(p)
    \/ \E p \in ProcIds : reactivatePool_update(p)

SpecBudget == Init /\ [][NextBudget]_vars

\* Concurrent consumeBudget calls alone.
NextConsume ==
    \/ \E id \in PoolIds, t \in Budgets : \E par \in Parents(id) : createPool(id, t, par)
    \/ \E p \in ProcIds, id \in PoolIds, a \in Amounts : StartConsume(p, id, a)
    \/ \E p \in ProcIds : consumeBudget_get(p)
    \/ \E p \in ProcIds : consumeBudget_update(p)

SpecConsume == Init /\ [][NextConsume]_vars

\* The budget manager called by one caller that awaits each call before the next.
NoneActive == \A q \in ProcIds : ~Active(q)

SeqProc == "p1"

NextBudgetSeq ==
    \/ \E id \in PoolIds, t \in Budgets : \E par \in Parents(id) :
          NoneActive /\ createPool(id, t, par)
    \/ \E id \in PoolIds : NoneActive /\ suspendPool(id)
    \/ \E id \in PoolIds, a \in Amounts : NoneActive /\ StartConsume(SeqProc, id, a)
    \/ \E id \in PoolIds, a \in Amounts : NoneActive /\ StartIncrease(SeqProc, id, a)
    \/ \E id \in PoolIds : NoneActive /\ StartReactivate(SeqProc, id)
    \/ consumeBudget_get(SeqProc)
    \/ consumeBudget_update(SeqProc)
    \/ increaseBudget_get(SeqProc)
    \/ increaseBudget_update(SeqProc)
    \/ reactivatePool_get(SeqProc)
    \/ reactivatePool_update(SeqProc)

SpecBudgetSeq == Init /\ [][NextBudgetSeq]_vars

\* The event loop runs every continuation of the caller's call that is ready.
BudgetStep ==
    \/ consumeBudget_get(SeqProc)
    \/ consumeBudget_update(SeqProc)
    \/ increaseBudget_get(SeqProc)
    \/ increaseBudget_update(SeqProc)
    \/ reactivatePool_get(SeqProc)
    \/ reactivatePool_update(SeqProc)

SpecBudgetSeqFair == SpecBudgetSeq /\ WF_vars(BudgetStep)

\* The same caller, who also awaits a consumeBudget and then the increaseBudget
\* of the same amount on the same pool.
NextBudgetLaw ==
    \/ \E id \in PoolIds, t \in Budgets : \E par \in Parents(id) :
          NoneActive /\ createPool(id, t, par)
    \/ \E id \in PoolIds : NoneActive /\ suspendPool(id)
    \/ \E id \in PoolIds, a \in Amounts : NoneActive /\ StartConsume(SeqProc, id, a)
    \/ \E id \in PoolIds, a \in Amounts :
          NoneActive /\ StartConsumeThenIncrease(SeqProc, id, a)
    \/ consumeThenIncrease_consume(SeqProc)
    \/ consumeThenIncrease_increase(SeqProc)
    \/ consumeThenIncrease_done(SeqProc)
    \/ consumeBudget_get(SeqProc)
    \/ consumeBudget_update(SeqProc)
    \/ increaseBudget_get(SeqProc)
    \/ increaseBudget_update(SeqProc)

SpecBudgetLaw == Init /\ [][NextBudgetLaw]_vars

\* The same caller, who also awaits a checkBudget and then the consumeBudget
\* of the same amount on the same pool.
NextBudgetCheck ==
    \/ \E id \in PoolIds, t \in Budgets : \E par \in Parents(id) :
          NoneActive /\ createPool(id, t, par)
    \/ \E id \in PoolIds : NoneActive /\ suspendPool(id)
    \/ \E id \in PoolIds, a \in Amounts : NoneActive /\ StartConsume(SeqProc, id, a)
    \/ \E id \in PoolIds \cup {"missing"}, a \in Amounts :
          NoneActive /\ StartCheckThenConsume(SeqProc, id, a)
    \/ checkThenConsume_check(SeqProc)
    \/ checkBudget_get(SeqProc)
    \/ checkThenConsume_consume(SeqProc)
    \/ checkThenConsume_done(SeqProc)
    \/ consumeBudget_get(SeqProc)
    \/ consumeBudget_update(SeqProc)

SpecBudgetCheck == Init /\ [][NextBudgetCheck]_vars

\* The engine and the approval operations, called by one caller that awaits
\* each call before the next.
NextEngineSeq ==
    \/ \E t \in Budgets : NoneActive /\ createPool(EnginePool, t, NoId)
    \/ \E w \in WorkflowIds \cup {"missing"}, input \in Inputs,
          sid \in SessionIds \cup {NoId}, pool \in {EnginePool, NoId}, model \in BOOLEAN :
            NoneActive /\ StartExecuteWorkflow(SeqProc, w, input, sid, pool, model)
    \/ \E sid \in DOMAIN sessions \cup {"missing"}, a \in DOMAIN approvals \cup {"missing"} :
            NoneActive /\ StartResumeSession(SeqProc, sid, a)
    \/ \E a \in DOMAIN approvals, by \in Reviewers, notes \in Notes :
            NoneActive /\ approveRequest(a, by, notes)
    \/ \E a \in DOMAIN approvals, by \in Reviewers, notes \in Notes :
            NoneActive /\ rejectRequest(a, by, notes)
    \/ EngineStep(SeqProc)

SpecEngineSeq == Init /\ [][NextEngineSeq]_vars

\* The event loop runs every continuation that is ready.
SpecEngineSeqFair == SpecEngineSeq /\ WF_vars(EngineStep(SeqProc))

\* Runs of the one-LLM-node workflow that name a budget pool, after the pools
\* were created and charged by one caller that awaits each call.
NextEngineBudget ==
    \/ \E id \in PoolIds, t \in Budgets : \E par \in Parents(id) :
          NoneActive /\ createPool(id, t, par)
    \/ \E id \in PoolIds : NoneActive /\ suspendPool(id)
    \/ \E id \in PoolIds, a \in Amounts : NoneActive /\ StartConsume(SeqProc, id, a)
    \/ \E pool \in PoolIds \cup {"missing"} :
          NoneActive /\ StartBudgetedWorkflow(SeqProc, "chat", Str("x"), pool)
    \/ app_executeWorkflow(SeqProc)
    \/ executeWorkflow_createSession(SeqProc)
    \/ executeWorkflow_saveExecutionState(SeqProc)
    \/ executeWorkflow_updateSessionCompleted(SeqProc)
    \/ executeWorkflow_saveCompleted(SeqProc)
    \/ executeWorkflow_updateSessionFailed(SeqProc)
    \/ executeWorkflow_saveFailed(SeqProc)
    \/ executeNode_running(SeqProc)
    \/ executeNode_completed(SeqProc)
    \/ executeNode_failed(SeqProc)
    \/ executeGroupNode_loop(SeqProc)
    \/ executeGroupNode_afterChild(SeqProc)
    \/ executeLLMNode_executeLLM(SeqProc)
    \/ executeLLMNode_saveLLMExecution(SeqProc)
    \/ executeLLMNode_finish(SeqProc)
    \/ consumeBudget_get(SeqProc)
    \/ consumeBudget_update(SeqProc)

SpecEngineBudget == Init /\ [][NextEngineBudget]_vars

\* The values the callers of the adapter specification use: two stored
\* workflows, sessions that snapshot them as they are stored, and node states
\* whose input and output are JSON values, the falsy ones included, or absent.
StoredIds == {"greet", "echo"}

JsonValues == {Num(0), Bool(FALSE), Str(""), Null, Num(7), Obj([a |-> Num(0)])}

GivenSessions ==
    {[id |-> sid, workflowId |-> w, workflowSnapshot |-> workflows[w], status |-> "running"] :
        sid \in {"s1", "s2"}, w \in StoredIds \cap DOMAIN workflows}

GivenNodeStates ==
    [nodeId : {"n"}, status : {"running", "completed"}, input : JsonValues,
     output : JsonValues \cup {Undefined}, error : {Undefined}, pendingApprovalId : {NoId}]

\* The storage adapter called by one caller that awaits each call.
NextStore ==
    \/ \E session \in GivenSessions : adapter_createSession(session)
    \/ \E id \in StoredIds, w \in StoredIds : adapter_updateWorkflow(id, [root |-> Catalogue[w]])
    \/ \E id \in StoredIds : adapter_deleteWorkflow(id)
    \/ \E sid \in {"s1", "s2"} :
          adapter_saveExecutionState([sessionId |-> sid, budgetPoolId |-> NoId,
                                      status |-> "running"])
    \/ \E sid \in {"s1", "s2"}, state \in GivenNodeStates :
          adapter_updateNodeState(sid, state.nodeId, state)

SpecStore == Init /\ [][NextStore]_vars

\* Runs without a model and without gates, on inputs that JSON holds as
\* falsy values and on an object: nodes that complete and nodes that fail.
NodeInputs == {Num(0), Str(""), Obj([who |-> Str("Ada")])}

NextEngineNodes ==
    \/ \E w \in {"echo", "greet", "chat", "lost"}, input \in NodeInputs :
          NoneActive /\ StartExecuteWorkflow(SeqProc, w, input, NoId, NoId, FALSE)
    \/ app_executeWorkflow(SeqProc)
    \/ executeWorkflow_createSession(SeqProc)
    \/ executeWorkflow_saveExecutionState(SeqProc)
    \/ executeWorkflow_updateSessionCompleted(SeqProc)
    \/ executeWorkflow_saveCompleted(SeqProc)
    \/ executeWorkflow_updateSessionFailed(SeqProc)
    \/ executeWorkflow_saveFailed(SeqProc)
    \/ executeNode_running(SeqProc)
    \/ executeNode_completed(SeqProc)
    \/ executeNode_failed(SeqProc)
    \/ executeGroupNode_loop(SeqProc)
    \/ executeGroupNode_afterChild(SeqProc)
    \/ executeLLMNode_noModel(SeqProc)
    \/ executeCallWorkflowNode_getWorkflow(SeqProc)

SpecEngineNodes == Init /\ [][NextEngineNodes]_vars

\* The transforms, data and base paths the callers of executeTransform use:
\* map and if, bare and inside with(["a"], ...), over data that holds the array
\* and the dispatched value at the top and under "a".
Items == Arr(<<Obj([value |-> Num(1)]), Obj([value |-> Num(2)])>>)

Tagged(tag) == Obj([tag |-> Str(tag)])

TransformData ==
    {Obj([items |-> Items, status |-> Str("success")]),
     Obj([items |-> Arr(<<>>), status |-> Tagged("error")]),
     Obj([items |-> Str("x"), status |-> Tagged("other")]),
     Obj([status |-> Str("constructor")]),
     Obj([a |-> Obj([items |-> Items, status |-> Tagged("success")])])}

MapFns == {Map(<<"items">>, Get(<<"item">>)), Map(<<"items">>, Get(<<"item", "value">>))}

Branches == [success |-> Const(Str("OK")), error |-> Const(Str("FAIL"))]

IfFns == {If(<<"status">>, Branches),
          If(<<"status">>, Branches @@ ("[object Object]" :> Const(Str("OBJECT"))))}

TransformFns == MapFns \cup IfFns \cup {With(<<"a">>, fn) : fn \in MapFns \cup IfFns}

BasePaths == {<<>>, <<"a">>}

NextTransform ==
    \/ \E fn \in TransformFns, data \in TransformData, basePath \in BasePaths :
          NoneActive /\ StartTransform(SeqProc, fn, data, basePath)
    \/ executeTransform_run(SeqProc)

SpecTransform == Init /\ [][NextTransform]_vars

\* taggedUnion expressions: without fields, with constant and looked-up
\* fields, with a field that fails, and with a field whose name is "tag".
TaggedUnionFields ==
    {EmptyMap,
     [value |-> Get(<<"status">>)],
     [value |-> Const(Num(1)), message |-> Get(<<"items">>)],
     [value |-> If(<<"status">>, Branches)],
     [tag |-> Const(Str("other"))],
     [tag |-> Get(<<"status">>), value |-> Const(Num(1))]}

TaggedUnionFns ==
    {TaggedUnion(tag, value) : tag \in {"success", "error"}, value \in TaggedUnionFields}

NextTaggedUnion ==
    \/ \E fn \in TaggedUnionFns, data \in TransformData, basePath \in BasePaths :
          NoneActive /\ StartTransform(SeqProc, fn, data, basePath)
    \/ executeTransform_run(SeqProc)

SpecTaggedUnion == Init /\ [][NextTaggedUnion]_vars

\* The provider invoking the wrapped tools of executeLLM calls.
NextTool ==
    \/ \E p \in ProcIds, name \in DOMAIN Tools, input \in ToolInputs, storage \in BOOLEAN,
          sid \in SessionIds \cup {NoId}, nodeId \in {"llm", NoId} :
            StartToolCall(p, name, input, storage, sid, nodeId)
    \/ \E p \in ProcIds : executeLLM_toolExecute(p)
    \/ \E p \in ProcIds : executeLLM_logToolCall(p)

SpecTool == Init /\ [][NextTool]_vars

\* A run of the one-LLM-node workflow whose provider invokes the wrapped
\* tools while executeLLM is awaited: the tool calls are made for the node
\* that is at its provider call, and the provider answers after them.
ToolProc == "p2"

NextToolNode ==
    \/ NoneActive /\ StartExecuteWorkflow(SeqProc, "chat", Str("x"), NoId, NoId, TRUE)
    \/ \E name \in DOMAIN Tools, input \in ToolInputs :
          /\ At(SeqProc, "executeLLMNode", "start")
          /\ StartToolCall(ToolProc, name, input, TRUE,
                           Top(SeqProc).sessionId, Top(SeqProc).nodeId)
    \/ executeLLM_toolExecute(ToolProc)
    \/ executeLLM_logToolCall(ToolProc)
    \/ ~Active(ToolProc) /\ executeLLMNode_executeLLM(SeqProc)
    \/ app_executeWorkflow(SeqProc)
    \/ executeWorkflow_createSession(SeqProc)
    \/ executeWorkflow_saveExecutionState(SeqProc)
    \/ executeWorkflow_updateSessionCompleted(SeqProc)
    \/ executeWorkflow_saveCompleted(SeqProc)
    \/ executeWorkflow_updateSessionFailed(SeqProc)
    \/ executeWorkflow_saveFailed(SeqProc)
    \/ executeNode_running(SeqProc)
    \/ executeNode_completed(SeqProc)
    \/ executeNode_failed(SeqProc)
    \/ executeGroupNode_loop(SeqProc)
    \/ executeGroupNode_afterChild(SeqProc)
    \/ executeLLMNode_saveLLMExecution(SeqProc)
    \/ executeLLMNode_finish(SeqProc)

SpecToolNode == Init /\ [][NextToolNode]_vars

\* Groups of every shape over two children: a is a transform, b an LLM node
\* (or is missing from nodes); up to two edges among the children and the
\* exit point, any of the three ids as entry point.
GroupNodeIds == {"a", "b"}

GroupEdges == {Edge(from, to) : from \in GroupNodeIds, to \in GroupNodeIds \cup {"exit"}}

GroupEdgeSeqs == {<<>>} \cup {<<e>> : e \in GroupEdges}
                        \cup {<<e1, e2>> : e1 \in GroupEdges, e2 \in GroupEdges}

GroupShapes ==
    {Group(nodes, edges, entryPoint, "exit") :
        nodes \in {[a |-> Echo], [a |-> Echo, b |-> LLM(FALSE)]},
        edges \in GroupEdgeSeqs,
        entryPoint \in GroupNodeIds \cup {"exit"}}

\* The store holds one workflow, g, whose root is one of the groups.
InitGroups ==
    /\ pools = EmptyMap
    /\ sessions = EmptyMap
    /\ execStates = EmptyMap
    /\ nodeStates = EmptyMap
    /\ approvals = EmptyMap
    /\ llmExecutions = {}
    /\ toolCallLogs = {}
    /\ workflows \in {[g |-> [root |-> shape]] : shape \in GroupShapes}
    /\ procs = [p \in ProcIds |-> IdleProc]
    /\ ncalls = 0
    /\ consumedAt = EmptyMap
    /\ providerCalls = {}

\* The steps of a run of g.
GroupStep ==
    \/ app_executeWorkflow(SeqProc)
    \/ executeWorkflow_createSession(SeqProc)
    \/ executeWorkflow_saveExecutionState(SeqProc)
    \/ executeWorkflow_updateSessionCompleted(SeqProc)
    \/ executeWorkflow_saveCompleted(SeqProc)
    \/ executeWorkflow_updateSessionFailed(SeqProc)
    \/ executeWorkflow_saveFailed(SeqProc)
    \/ executeNode_running(SeqProc)
    \/ executeNode_completed(SeqProc)
    \/ executeNode_failed(SeqProc)
    \/ executeGroupNode_loop(SeqProc)
    \/ executeGroupNode_afterChild(SeqProc)
    \/ executeLLMNode_executeLLM(SeqProc)
    \/ executeLLMNode_saveLLMExecution(SeqProc)
    \/ executeLLMNode_finish(SeqProc)
    \/ consumeBudget_get(SeqProc)
    \/ consumeBudget_update(SeqProc)

\* One run of g by a caller that may have created the pool the run names.
NextGroups ==
    \/ \E t \in Budgets : NoneActive /\ createPool(EnginePool, t, NoId)
    \/ \E pool \in {EnginePool, NoId} :
          NoneActive /\ StartExecuteWorkflow(SeqProc, "g", Str("x"), NoId, pool, TRUE)
    \/ GroupStep

SpecGroups == InitGroups /\ [][NextGroups]_vars

\* The event loop runs every continuation of the run that is ready.
SpecGroupsFair == SpecGroups /\ WF_vars(GroupStep)

\* A workflow that calls another workflow and then stops at a review gate:
\* its run leaves the session of the nested run next to its own.
CallThenReview ==
    Group([call |-> CallWorkflow("echo", NoMapping, NoMapping, FALSE), llm |-> LLM(TRUE)],
          <<Edge("call", "llm"), Edge("llm", "exit")>>, "call", "exit")

ResumeCatalogue ==
    [echo |-> Catalogue["echo"], review |-> Catalogue["review"],
     callThenReview |-> CallThenReview]

InitResume ==
    /\ pools = EmptyMap
    /\ sessions = EmptyMap
    /\ execStates = EmptyMap
    /\ nodeStates = EmptyMap
    /\ approvals = EmptyMap
    /\ llmExecutions = {}
    /\ toolCallLogs = {}
    /\ workflows = [id \in DOMAIN ResumeCatalogue |-> [root |-> ResumeCatalogue[id]]]
    /\ procs = [p \in ProcIds |-> IdleProc]
    /\ ncalls = 0
    /\ consumedAt = EmptyMap
    /\ providerCalls = {}

\* One run, then the approval operations and resumeSession called with any
\* session and any request of the store.
NextResume ==
    \/ \E w \in DOMAIN ResumeCatalogue, input \in Inputs :
          NoneActive /\ StartExecuteWorkflow(SeqProc, w, input, NoId, NoId, TRUE)
    \/ \E a \in DOMAIN approvals, by \in Reviewers, notes \in Notes :
          NoneActive /\ approveRequest(a, by, notes)
    \/ \E a \in DOMAIN approvals, by \in Reviewers, notes \in Notes :
          NoneActive /\ rejectRequest(a, by, notes)
    \/ \E sid \in DOMAIN sessions, a \in DOMAIN approvals :
          NoneActive /\ StartResumeSession(SeqProc, sid, a)
    \/ app_executeWorkflow(SeqProc)
    \/ executeWorkflow_createSession(SeqProc)
    \/ executeWorkflow_saveExecutionState(SeqProc)
    \/ executeWorkflow_updateSessionCompleted(SeqProc)
    \/ executeWorkflow_saveCompleted(SeqProc)
    \/ executeWorkflow_updateSessionFailed(SeqProc)
    \/ executeWorkflow_saveFailed(SeqProc)
    \/ executeNode_running(SeqProc)
    \/ executeNode_completed(SeqProc)
    \/ executeNode_failed(SeqProc)
    \/ executeGroupNode_loop(SeqProc)
    \/ executeGroupNode_afterChild(SeqProc)
    \/ executeLLMNode_createApprovalRequest(SeqProc)
    \/ executeLLMNode_updateSession(SeqProc)
    \/ executeCallWorkflowNode_getWorkflow(SeqProc)
    \/ executeCallWorkflowNode_afterWorkflow(SeqProc)
    \/ resumeSession_get(SeqProc)
    \/ resumeSession_update(SeqProc)

SpecResume == InitResume /\ [][NextResume]_vars

(***************************************************************************)
(* Budget accounting.                                                      *)
(***************************************************************************)

\* C1: in every reachable state, under any interleaving of the reads and
\* writes of the budget manager's calls, every pool has
\* usedBudget + remainingBudget = totalBudget.
C1_BudgetIdentity ==
    \A id \in DOMAIN pools :
        pools[id].usedBudget + pools[id].remainingBudget = pools[id].totalBudget

\* C2: concurrent consumeBudget calls never double-spend: a pool's usedBudget
\* has grown by exactly the amounts the calls consumed from it, its
\* remainingBudget has shrunk by the same, and the calls never consume more
\* than the pool held.
C2_NoDoubleSpend ==
    \A id \in DOMAIN pools :
        /\ pools[id].usedBudget = consumedAt[id]
        /\ pools[id].remainingBudget = pools[id].totalBudget - consumedAt[id]
        /\ consumedAt[id] <= pools[id].totalBudget

\* C3: a consumeBudget call that fails (pool missing, pool not active, or
\* not enough budget at the pool or at an ancestor) has changed no pool.
C3_FailedConsumeChangesNothing ==
    \A p \in ProcIds :
        (Done(p) /\ procs[p].call.op = "consumeBudget" /\ procs[p].ret.kind = "throw")
            => procs[p].call.wrote = {}

\* C10: in every reachable state, a pool whose remainingBudget <= 0 and which
\* is not suspended has status exhausted, from createPool on.
C10_ExhaustedWhenEmpty ==
    \A id \in DOMAIN pools :
        (pools[id].remainingBudget <= 0 /\ pools[id].status # "suspended")
            => pools[id].status = "exhausted"

\* The pool id and its ancestors along parentPoolId in the table ps.
RECURSIVE ChainFrom(_, _, _)
ChainFrom(ps, id, seen) ==
    IF id = NoId \/ id \in seen \/ id \notin DOMAIN ps THEN seen
    ELSE ChainFrom(ps, ps[id].parentPoolId, seen \cup {id})

Chain(ps, id) == ChainFrom(ps, id, {})

\* p's consumeBudget call has returned without an error.
Consumed(p) ==
    Done(p) /\ procs[p].call.op = "consumeBudget" /\ procs[p].ret.kind = "return"

\* C11: a consumeBudget(p, n) call that succeeds has increased usedBudget by n
\* and decreased remainingBudget by n in p and in every ancestor of p along
\* parentPoolId, has left totalBudget alone, and has changed no pool outside
\* that chain.
C11_ConsumeChargesChain ==
    \A p \in ProcIds :
        Consumed(p) =>
            LET before == procs[p].call.before
                n == procs[p].call.amount
            IN \A id \in DOMAIN before :
                  IF id \in Chain(before, procs[p].call.poolId)
                  THEN /\ pools[id].usedBudget = before[id].usedBudget + n
                       /\ pools[id].remainingBudget = before[id].remainingBudget - n
                       /\ pools[id].totalBudget = before[id].totalBudget
                  ELSE /\ pools[id].usedBudget = before[id].usedBudget
                       /\ pools[id].remainingBudget = before[id].remainingBudget
                       /\ pools[id].totalBudget = before[id].totalBudget

\* consume(child, 1) has succeeded on a child of parent: both are charged 1.
C11_Witness ==
    \E p \in ProcIds :
        /\ Consumed(p)
        /\ procs[p].call.poolId = "child"
        /\ procs[p].call.amount = 1
        /\ procs[p].call.before["child"].parentPoolId = "parent"
        /\ pools["child"].remainingBudget = procs[p].call.before["child"].remainingBudget - 1
        /\ pools["parent"].remainingBudget = procs[p].call.before["parent"].remainingBudget - 1

\* C12: in every reachable state the parentPoolId relation over the stored
\* pools is acyclic: following parentPoolId from any pool never comes back to
\* a pool already passed, a pool that names itself as its parent included.
C12_ParentChainAcyclic ==
    \A id \in DOMAIN pools : id \notin Chain(pools, pools[id].parentPoolId)

(***************************************************************************)
(* Approval gates and resume.                                              *)
(***************************************************************************)

\* The session status a gate sets for an approval request of a given type.
WaitingStatus(type) ==
    CASE type = "human_review" -> "waiting_for_human_review"
      [] type = "workflow_call" -> "waiting_for_workflow_approval"
      [] OTHER -> "waiting_for_budget_approval"

\* The approval requests of a session, and those of them that are pending.
ApprovalsOf(sid) == {a \in DOMAIN approvals : approvals[a].sessionId = sid}

PendingOf(sid) == {a \in ApprovalsOf(sid) : approvals[a].status = "pending"}

\* p's executeWorkflow call has handed control back to its caller.
RunOver(p) == Done(p) /\ procs[p].call.op = "executeWorkflow"

\* C4: when a run has reached a node that requires approval, then once
\* executeWorkflow has handed control back to the caller the session has the
\* waiting_for_* status of the approval request, not failed.
C4_GateLeavesSessionWaiting ==
    \A p \in ProcIds : \A a \in DOMAIN approvals :
        (RunOver(p) /\ approvals[a].sessionId = procs[p].call.session)
            => sessions[approvals[a].sessionId].status = WaitingStatus(approvals[a].type)

\* C5: in every reachable state over any sequence of executeWorkflow,
\* approveRequest, rejectRequest and resumeSession calls, every session whose
\* status is a waiting_for_* value has exactly one pending approval request.
C5_WaitingHasOnePending ==
    \A sid \in DOMAIN sessions :
        sessions[sid].status \in WaitingStatuses => Cardinality(PendingOf(sid)) = 1

\* A gate has set a session waiting, and its approval request is the one
\* pending request of the session.
C5_Witness ==
    \E sid \in DOMAIN sessions :
        /\ sessions[sid].status \in WaitingStatuses
        /\ \E a \in DOMAIN approvals :
              /\ PendingOf(sid) = {a}
              /\ sessions[sid].status = WaitingStatus(approvals[a].type)

\* The output Scenario A expects of its transform node.
Greeting(name) == Obj([greeting |-> Str("hi"), name |-> name])

\* C6: a run of the group with sentinel entryPoint and exitPoint and edges
\* entry -> T, T -> exit on {who: "Ada"} returns T's output
\* {greeting: "hi", name: "Ada"}, completes the session, leaves T's node state
\* completed with the group's input, and gives the sentinels no node state.
C6_SentinelGroupRunsT ==
    \A p \in ProcIds :
        (RunOver(p) /\ procs[p].call.workflowId = "scenarioA"
                    /\ procs[p].call.input = Obj([who |-> Str("Ada")]))
            => LET sid == procs[p].call.session
               IN /\ procs[p].ret.kind = "return"
                  /\ procs[p].ret.val.output = Greeting(Str("Ada"))
                  /\ sessions[sid].status = "completed"
                  /\ <<sid, "root.T">> \in DOMAIN nodeStates
                  /\ nodeStates[<<sid, "root.T">>].status = "completed"
                  /\ <<sid, "root.entry">> \notin DOMAIN nodeStates
                  /\ <<sid, "root.exit">> \notin DOMAIN nodeStates

\* C7: a run of the group with nodes {a, b} and edges entry -> a, a -> b,
\* b -> a fails with a cycle error: the session is failed, node a's state is
\* completed, and node b's state is failed with an error that names the cycle.
C7_CycleFailsAtB ==
    \A p \in ProcIds :
        (RunOver(p) /\ procs[p].call.workflowId \in {"scenarioB", "cycle"})
            => LET sid == procs[p].call.session
               IN /\ procs[p].ret.kind = "throw"
                  /\ sessions[sid].status = "failed"
                  /\ <<sid, "root.a">> \in DOMAIN nodeStates
                  /\ nodeStates[<<sid, "root.a">>].status = "completed"
                  /\ <<sid, "root.b">> \in DOMAIN nodeStates
                  /\ nodeStates[<<sid, "root.b">>].status = "failed"
                  /\ nodeStates[<<sid, "root.b">>].error.msg = "Cycle detected at node"

\* p's resumeSession call has returned without an error.
Resumed(p) ==
    Done(p) /\ procs[p].call.op = "resumeSession" /\ procs[p].ret.kind = "return"

\* The session ids executeWorkflow can use, and the qualified ids of the
\* catalogue's LLM nodes that require a human review.
RunSessionIds == SessionIds \cup {"session-" \o ToString(i) : i \in 0..(MaxSessions - 1)}

ReviewNodeIds ==
    UNION {{"root." \o n : n \in {m \in DOMAIN Catalogue[w].nodes :
                                    /\ Catalogue[w].nodes[m].type = "llm"
                                    /\ Catalogue[w].nodes[m].requiresHumanReview}} :
           w \in WorkflowIds}

\* p's resumeSession call has returned for session sid and the approved
\* human_review request of its node n.
ReviewResumed(p, sid, n) ==
    /\ Resumed(p)
    /\ procs[p].call.sessionId = sid
    /\ approvals[procs[p].call.approvalId].type = "human_review"
    /\ approvals[procs[p].call.approvalId].sessionId = sid
    /\ approvals[procs[p].call.approvalId].nodeId = n

\* C8: after a human_review suspension, a resume with the approved request
\* re-enters the suspended node, so that its LLM call then takes place.
C8_ResumeCallsProvider ==
    \A p \in ProcIds : \A sid \in RunSessionIds : \A n \in ReviewNodeIds :
        ReviewResumed(p, sid, n) ~> (<<sid, n>> \in providerCalls)

\* p takes a step of its resumeSession call.
ResumeStep(p, pc) == At(p, "resumeSession", pc) /\ procs'[p] # procs[p]

\* C9: resumeSession fails when no approval with the id exists or when the
\* approval is not approved, and then leaves every session as it is; only
\* when the approval is approved does it go on to set the session running.
C9_ResumeRequiresApproved ==
    [][\A p \in ProcIds :
        /\ ResumeStep(p, "get") =>
              /\ sessions' = sessions
              /\ LET a == Top(p).approvalId
                 IN IF a \in DOMAIN approvals /\ approvals[a].status = "approved"
                    THEN procs'[p].stack = <<[Top(p) EXCEPT !.pc = "update"]>>
                    ELSE procs'[p].stack = <<>> /\ procs'[p].ret.kind = "throw"
        /\ (ResumeStep(p, "update") /\ SessionExists(Top(p).sessionId)) =>
              /\ sessions' = [sessions EXCEPT ![Top(p).sessionId].status = "running"]
              /\ procs'[p].ret.kind = "return"]_vars

\* A resume with an approved request has set a session running that was not,
\* after resumes that failed left it as it was.
C9_Witness ==
    \E p \in ProcIds :
        /\ Resumed(p)
        /\ approvals[procs[p].call.approvalId].status = "approved"
        /\ sessions[procs[p].call.sessionId].status = "running"
        /\ execStates[procs[p].call.sessionId].status = "failed"

\* The node state status a suspension for an approval of a given type leaves.
NodeWaitingStatus(type) ==
    IF type = "human_review" THEN "waiting_for_review" ELSE "waiting_for_approval"

\* C13: when a node has suspended for approval and the run has handed control
\* back, the node's persisted state has status waiting_for_review (human
\* review) or waiting_for_approval (workflow call) and its pendingApprovalId
\* is the id of the approval request the gate wrote; it is not running or
\* failed.
C13_SuspendedNodeIsWaiting ==
    \A p \in ProcIds : \A a \in DOMAIN approvals :
        (RunOver(p) /\ approvals[a].sessionId = procs[p].call.session
                    /\ approvals[a].status = "pending")
            => LET key == <<approvals[a].sessionId, approvals[a].nodeId>>
               IN /\ key \in DOMAIN nodeStates
                  /\ nodeStates[key].status = NodeWaitingStatus(approvals[a].type)
                  /\ nodeStates[key].pendingApprovalId = a

\* The qualified ids of the LLM nodes of session sid's root group that
\* require a human review and whose execution is over.
ReviewNodesExecuted(sid) ==
    {"root." \o m : m \in
        {n \in DOMAIN sessions[sid].workflowSnapshot.root.nodes :
            /\ sessions[sid].workflowSnapshot.root.nodes[n].type = "llm"
            /\ sessions[sid].workflowSnapshot.root.nodes[n].requiresHumanReview
            /\ <<sid, "root." \o n>> \in DOMAIN nodeStates
            /\ nodeStates[<<sid, "root." \o n>>].status # "running"}}

\* The approval requests written for a node of a session.
ApprovalsOfNode(sid, n) == {a \in ApprovalsOf(sid) : approvals[a].nodeId = n}

\* What the human review gate of node n of p's run has done and not done:
\* no provider call, no LLM execution record, no budget consumed, and one
\* approval request of type human_review, pending until it is resolved,
\* whose context.llmOutput is the input the node was given.
ReviewGateOutcome(p, n) ==
    LET sid == procs[p].call.session
    IN /\ <<sid, n>> \notin providerCalls
       /\ \A e \in llmExecutions : ~(e.sessionId = sid /\ e.nodeId = n)
       /\ procs[p].call.wrote = {}
       /\ Cardinality(ApprovalsOfNode(sid, n)) = 1
       /\ \A a \in ApprovalsOfNode(sid, n) :
              /\ approvals[a].type = "human_review"
              /\ approvals[a].status = "pending" \/ approvals[a].resolved
              /\ GetProperty(approvals[a].context, "llmOutput") = procs[p].call.input

\* p's call is a run that has created its session.
RunOf(p) == procs[p].call.op = "executeWorkflow" /\ procs[p].call.session # NoId

\* C14 as stated: for an LLM node with requiresHumanReview = true, executing
\* the node never invokes the provider, saves no LLM execution record and
\* consumes no budget, and writes exactly one approval request of type
\* human_review with status pending whose context.llmOutput equals the
\* node's input.
C14_ReviewGateWritesRequest ==
    \A p \in ProcIds :
        RunOf(p) => \A n \in ReviewNodesExecuted(procs[p].call.session) :
                        ReviewGateOutcome(p, n)

\* C14 amended: the same, for an engine that was built with a language
\* model; without one the node fails before the gate and writes no request.
C14_ReviewGateWithModel ==
    \A p \in ProcIds :
        (RunOf(p) /\ procs[p].call.model)
            => \A n \in ReviewNodesExecuted(procs[p].call.session) :
                  ReviewGateOutcome(p, n)

\* A run on input "x" of a group whose first node is an LLM node that
\* requires a review is over: its one approval request carries "x".
C14_Witness ==
    \E p \in ProcIds :
        /\ RunOver(p)
        /\ procs[p].call.model
        /\ procs[p].call.input = Str("x")
        /\ procs[p].call.session # NoId
        /\ "root.llm" \in ReviewNodesExecuted(procs[p].call.session)
        /\ \E a \in ApprovalsOfNode(procs[p].call.session, "root.llm") :
              approvals[a].context.v.llmOutput = Str("x")

(***************************************************************************)
(* Runs and node states.                                                   *)
(***************************************************************************)

\* p's executeWorkflow (top-level or nested) hands control back in this step,
\* after it has created its session.
RunEnds(p) ==
    /\ Active(p)
    /\ Top(p).fn = "executeWorkflow"
    /\ Top(p).pc # "createSession"
    /\ Len(procs'[p].stack) < Depth(p)

\* C15: executeWorkflow ends with the session in the terminal status of the
\* outcome. When the root group has executed successfully it returns
\* {sessionId, output, success: true} with the root's output, and the session
\* and the execution state are completed; when the root group has failed it
\* re-raises the root's error, and the session and the execution state are
\* failed. The session is never running when executeWorkflow has returned or
\* thrown.
C15_RunEndsTerminal ==
    [][\A p \in ProcIds :
        RunEnds(p) =>
            LET sid == Top(p).sessionId
                root == nodeStates'[<<sid, "root">>]
                r == procs'[p].ret
            IN /\ r.kind \in {"return", "throw"}
               /\ sessions'[sid].status # "running"
               /\ r.kind = "return" =>
                     /\ root.status = "completed"
                     /\ DOMAIN r.val = {"sessionId", "output", "success"}
                     /\ r.val.sessionId = sid
                     /\ r.val.success = TRUE
                     /\ root.output = StoredJson(r.val.output)
                     /\ sessions'[sid].status = "completed"
                     /\ execStates'[sid].status = "completed"
               /\ r.kind = "throw" =>
                     /\ root.status = "failed"
                     /\ root.error = r.err
                     /\ sessions'[sid].status = "failed"
                     /\ execStates'[sid].status = "failed"]_vars

\* A run with a nested run has returned: both sessions are completed; and a
\* run that failed is over in another behaviour (C7's case).
C15_Witness ==
    \E p \in ProcIds :
        /\ RunOver(p)
        /\ procs[p].ret.kind = "return"
        /\ procs[p].call.workflowId = "outer"
        /\ procs[p].ret.val.sessionId = procs[p].call.session
        /\ Cardinality(DOMAIN sessions) = 2
        /\ \A sid \in DOMAIN sessions :
              sessions[sid].status = "completed" /\ execStates[sid].status = "completed"

\* The node states recorded for a session.
NodeStatesOf(sid) == {key \in DOMAIN nodeStates : key[1] = sid}

\* C16: in every reachable state, for every session whose status is
\* completed, the node state keyed "root" is completed and every node state
\* recorded for the session is completed or skipped.
C16_CompletedSessionNodes ==
    \A sid \in DOMAIN sessions :
        sessions[sid].status = "completed" =>
            /\ <<sid, "root">> \in NodeStatesOf(sid)
            /\ nodeStates[<<sid, "root">>].status = "completed"
            /\ \A key \in NodeStatesOf(sid) :
                  nodeStates[key].status \in {"completed", "skipped"}

\* A session is completed whose root group has executed a node.
C16_Witness ==
    \E sid \in DOMAIN sessions :
        /\ sessions[sid].status = "completed"
        /\ Cardinality(NodeStatesOf(sid)) >= 2
        /\ \A key \in NodeStatesOf(sid) : nodeStates[key].status = "completed"

\* C17: within one session, any two distinct nodes of the workflow's node
\* tree, at any nesting depth, are executed under distinct qualified ids: a
\* qualified id of a session stands for one place in the tree, so that no
\* node's state row is overwritten by another node's state.
C17_QualifiedIdsDistinct ==
    \A p \in ProcIds :
        procs[p].call.op = "executeWorkflow" =>
            \A x, y \in procs[p].call.executed :
                (x[1] = y[1] /\ x[2] = y[2]) => x[3] = y[3]

\* The groups of a node tree with their qualified ids: the node itself when
\* it is a group, and the groups under it.
RECURSIVE GroupsUnder(_, _)
GroupsUnder(qid, node) ==
    IF node.type # "group" THEN {}
    ELSE {<<qid, node>>} \cup
         UNION {GroupsUnder(qid \o "." \o m, node.nodes[m]) : m \in DOMAIN node.nodes}

\* The nodes of group g (a pair of GroupsUnder) whose state row in session
\* sid has status running.
RunningIn(sid, g) ==
    {m \in DOMAIN g[2].nodes :
        /\ <<sid, g[1] \o "." \o m>> \in DOMAIN nodeStates
        /\ nodeStates[<<sid, g[1] \o "." \o m>>].status = "running"}

\* No two sibling nodes of a group of a session are both running.
OneSiblingRunning ==
    \A sid \in DOMAIN sessions :
        \A g \in GroupsUnder("root", sessions[sid].workflowSnapshot.root) :
            Cardinality(RunningIn(sid, g)) <= 1

\* p's step writes the state of a group's child as running.
ChildStarts(p) ==
    /\ At(p, "executeNode", "running")
    /\ procs'[p] # procs[p]
    /\ Depth(p) >= 2
    /\ procs[p].stack[Depth(p) - 1].fn = "executeGroupNode"

\* C18: within a run, node state transitions are ordered along the edges:
\* when the state of a node B of a group is written running, every node A of
\* the group that was executed and has an edge to B has its state written
\* completed already; and at no point do two sibling nodes of a group both
\* have status running.
C18_TransitionsOrdered ==
    [][/\ OneSiblingRunning
       /\ OneSiblingRunning'
       /\ \A p \in ProcIds :
             ChildStarts(p) =>
                LET g == procs[p].stack[Depth(p) - 1]
                    B == g.currentNodeId
                IN \A i \in 1..Len(g.node.edges) :
                      (g.node.edges[i].to = B /\ g.node.edges[i].from \in g.executedNodes \ {B})
                        => nodeStates[<<g.sessionId,
                                        g.nodeId \o "." \o g.node.edges[i].from>>].status
                             = "completed"]_vars

(***************************************************************************)
(* callWorkflow nodes.                                                     *)
(***************************************************************************)

\* p takes a step of the approval gate of a callWorkflow node.
CallGateStep(p) ==
    /\ Active(p)
    /\ Top(p).fn = "executeCallWorkflowNode"
    /\ Top(p).node.requiresApproval
    /\ procs'[p] # procs[p]

\* C19: for a callWorkflow node with requiresApproval = true the approval
\* gate comes first: one pending approval request of type workflow_call whose
\* context.workflowRef names the referenced workflow is written, then the
\* session status becomes waiting_for_workflow_approval and the node throws;
\* the referenced workflow is not executed and no nested session is created,
\* whether or not workflowRef exists.
C19_CallGateFirst ==
    [][\A p \in ProcIds :
        CallGateStep(p) =>
            LET f == Top(p)
            IN /\ DOMAIN sessions' = DOMAIN sessions
               /\ IF f.approvalId = NoId
                  THEN /\ sessions' = sessions
                       /\ Len(procs'[p].stack) = Depth(p)
                       /\ procs'[p].stack[Depth(p)].fn = "executeCallWorkflowNode"
                       /\ \E a \in DOMAIN approvals' \ DOMAIN approvals :
                             /\ DOMAIN approvals' = DOMAIN approvals \cup {a}
                             /\ approvals'[a].sessionId = f.sessionId
                             /\ approvals'[a].nodeId = f.nodeId
                             /\ approvals'[a].type = "workflow_call"
                             /\ approvals'[a].status = "pending"
                             /\ GetProperty(approvals'[a].context, "workflowRef")
                                  = Str(f.node.workflowRef)
                  ELSE /\ approvals' = approvals
                       /\ sessions'[f.sessionId].status = "waiting_for_workflow_approval"
                       /\ Len(procs'[p].stack) = Depth(p) - 1
                       /\ procs'[p].ret.kind = "throw"]_vars

\* The gate of a callWorkflow node whose workflowRef names no stored workflow
\* has written its request and set the session waiting; no other session exists.
C19_Witness ==
    \E a \in DOMAIN approvals :
        /\ approvals[a].type = "workflow_call"
        /\ approvals[a].status = "pending"
        /\ approvals[a].context.v.workflowRef = Str("missing")
        /\ "missing" \notin DOMAIN workflows
        /\ sessions[approvals[a].sessionId].status = "waiting_for_workflow_approval"
        /\ DOMAIN sessions = {approvals[a].sessionId}

\* A mapping evaluated on a value, the value itself when the mapping is unset.
Mapped(mapping, value) ==
    IF mapping = NoMapping THEN value ELSE executeTransform(mapping, value, <<>>).val

\* The sessions of the nested runs of p's run.
NestedSessions(p) == DOMAIN sessions \ {procs[p].call.session}

\* p's run of a group whose one node, call, is a callWorkflow node without
\* requiresApproval, is over.
CallRunOver(p) ==
    /\ RunOver(p)
    /\ procs[p].call.session # NoId
    /\ "call" \in DOMAIN sessions[procs[p].call.session].workflowSnapshot.root.nodes
    /\ ~sessions[procs[p].call.session].workflowSnapshot.root.nodes["call"].requiresApproval

ChargedExecutions(p) ==
    {e \in llmExecutions : /\ e.sessionId = procs[p].call.session
                           /\ e.success
                           /\ e.usage # Undefined}

\* p's call is a run started by a caller that read the pools, and it is over.
BudgetedRunOver(p) ==
    /\ RunOver(p)
    /\ "before" \in DOMAIN procs[p].call
    /\ procs[p].call.session \in DOMAIN execStates

\* C21: after a successful LLM call in a run that has a budgetPoolId and whose
\* result reports usage, the pool and each of its ancestors has usedBudget
\* increased by usage.totalTokens; if the pool cannot cover totalTokens the
\* consume fails with an insufficient-budget error, the LLM node's state is
\* failed and the session is failed.
C21_LLMChargesPoolChain ==
    \A p \in ProcIds :
        BudgetedRunOver(p) =>
            LET sid == procs[p].call.session
                before == procs[p].call.before
                pool == execStates[sid].budgetPoolId
            IN \A e \in ChargedExecutions(p) :
                  pool \in DOMAIN before /\ before[pool].status = "active" =>
                      IF before[pool].remainingBudget >= e.usage.totalTokens
                      THEN \A a \in Chain(before, pool) :
                              pools[a].usedBudget = before[a].usedBudget + e.usage.totalTokens
                      ELSE /\ procs[p].ret = Throw(Err("Insufficient budget in pool", pool))
                           /\ nodeStates[<<sid, e.nodeId>>].status = "failed"
                           /\ sessions[sid].status = "failed"

(***************************************************************************)
(* Laws of the budget operations.                                          *)
(***************************************************************************)
\* The three amounts of a pool row.
Totals(pool) == <<pool.totalBudget, pool.usedBudget, pool.remainingBudget>>

\* The consume of p's consume-then-increase set the pool to exhausted.
ConsumeExhausted(p) ==
    procs[p].call.before[procs[p].call.poolId].remainingBudget = procs[p].call.amount

\* p's increaseBudget has just returned to the caller that consumed first.
IncreasedAfterConsume(p) ==
    /\ At(p, "consumeThenIncrease", "done")
    /\ procs[p].ret.kind = "return"

\* C22: consumeBudget(p, 0) on an active pool leaves totalBudget, usedBudget
\* and remainingBudget unchanged; and for every n with 0 < n <= remainingBudget,
\* consumeBudget(p, n) followed by increaseBudget(p, n) restores
\* remainingBudget to its value before the consume and leaves the pool active
\* if that consume had set it to exhausted.
C22_ConsumeZeroAndRoundTrip ==
    \A p \in ProcIds :
        LET call == procs[p].call
        IN /\ ( /\ call.op = "consumeBudget"
                /\ call.amount = 0
                /\ call.poolId \in DOMAIN call.before
                /\ call.before[call.poolId].status = "active" )
              => Totals(pools[call.poolId]) = Totals(call.before[call.poolId])
           /\ ( /\ IncreasedAfterConsume(p)
                /\ call.amount > 0 )
              => /\ pools[call.poolId].remainingBudget =
                        call.before[call.poolId].remainingBudget
                 /\ ConsumeExhausted(p) => pools[call.poolId].status = "active"

\* A consume of the whole remainder of a pool that has a parent, then the
\* increase, has returned.
C22_Witness ==
    /\ IncreasedAfterConsume(SeqProc)
    /\ procs[SeqProc].call.amount > 0
    /\ ConsumeExhausted(SeqProc)
    /\ pools[procs[SeqProc].call.poolId].parentPoolId # NoId

\* p's reactivatePool call is in flight.
Reactivating(p) == Active(p) /\ procs[p].call.op = "reactivatePool"

\* C23: reactivatePool(p) sets the pool's status to active only if
\* remainingBudget > 0; otherwise the pool's status stays as it was; in both
\* cases totalBudget, usedBudget and remainingBudget are unchanged. Stated of
\* every step of a reactivatePool call.
C23_ReactivateOnlyWithBudget ==
    [][\A p \in ProcIds :
          Reactivating(p) /\ procs[p].call.poolId \in DOMAIN pools =>
              LET id == procs[p].call.poolId
              IN /\ Totals(pools'[id]) = Totals(pools[id])
                 /\ pools[id].remainingBudget <= 0 => pools'[id].status = pools[id].status
                 /\ pools'[id].status \in {pools[id].status, "active"}]_vars

\* A reactivatePool has returned after it set a suspended pool active.
C23_Witness ==
    /\ Done(SeqProc)
    /\ procs[SeqProc].call.op = "reactivatePool"
    /\ procs[SeqProc].ret.kind = "return"
    /\ procs[SeqProc].call.wrote = {procs[SeqProc].call.poolId}

(***************************************************************************)
(* Tool-call logging.                                                      *)
(***************************************************************************)
\* C24: tool-call logging is best-effort: when a wrapped tool's execute
\* function returns a result and the store's logToolCall then fails, the
\* wrapped tool still returns the tool's result to the provider.
C24_LoggingIsBestEffort ==
    \A p \in ProcIds :
        ( /\ Done(p)
          /\ procs[p].call.op = "toolExecute"
          /\ procs[p].call.toolResult.kind = "return" )
        => procs[p].ret = procs[p].call.toolResult

(***************************************************************************)
(* The store's round trips.                                                *)
(***************************************************************************)
\* C25: a session's workflowSnapshot is frozen at createSession: after any
\* later updateWorkflow or deleteWorkflow on the workflow it was created
\* from, getSession returns the same workflowSnapshot as was stored when the
\* session was created. Stated of every updateWorkflow and deleteWorkflow
\* step and every session there is.
C25_SnapshotFrozen ==
    [][workflows' # workflows =>
          \A sid \in DOMAIN sessions :
              /\ SessionExists(sid)'
              /\ getSession(sid)'.workflowSnapshot = getSession(sid).workflowSnapshot]_vars

\* A session whose workflow was deleted, and one whose workflow now has
\* another definition than the session's snapshot.
C25_Witness ==
    \E s1, s2 \in DOMAIN sessions :
        /\ getSession(s1).workflowId = NoId
        /\ getSession(s2).workflowId \in DOMAIN workflows
        /\ workflows[getSession(s2).workflowId] # getSession(s2).workflowSnapshot

\* C26: for every existing approval request, approveRequest(id, by, notes)
\* followed by getApprovalRequest(id) returns status approved with
\* resolvedBy = by, resolutionNotes = notes and resolvedAt set; and
\* rejectRequest(id, by, reason) followed by getApprovalRequest(id) returns
\* status rejected with resolvedBy = by and resolutionNotes = reason.
C26_ResolveThenGet ==
    [][\A id \in DOMAIN approvals, by \in Reviewers, notes \in Notes :
          /\ approveRequest(id, by, notes) =>
                /\ getApprovalRequest(id)'.status = "approved"
                /\ getApprovalRequest(id)'.resolvedBy = by
                /\ getApprovalRequest(id)'.resolutionNotes = notes
                /\ getApprovalRequest(id)'.resolved
          /\ rejectRequest(id, by, notes) =>
                /\ getApprovalRequest(id)'.status = "rejected"
                /\ getApprovalRequest(id)'.resolvedBy = by
                /\ getApprovalRequest(id)'.resolutionNotes = notes]_vars

\* C27: node state round-trips through the store: for every JSON value of
\* input and output (0, false, the empty string and null included),
\* updateNodeState(sessionId, nodeId, state) followed by
\* getExecutionState(sessionId) returns nodeStates[nodeId] with the same
\* status, input and output that were written.
C27_NodeStateRoundTrip ==
    [][\A sid \in DOMAIN execStates, state \in GivenNodeStates :
          adapter_updateNodeState(sid, state.nodeId, state) =>
              LET got == getExecutionState(sid)'.nodeStates[state.nodeId]
              IN /\ got.status = state.status
                 /\ got.input = state.input
                 /\ got.output = state.output]_vars

(***************************************************************************)
(* Transform functions.                                                    *)
(***************************************************************************)
\* p's executeTransform call has returned or thrown.
Transformed(p) == Done(p) /\ procs[p].call.op = "executeTransform"

\* The map or if a call evaluates, bare or inside one with, and the base
\* path it is evaluated at.
Inside(call) == IF call.transform.type = "with" THEN call.transform.fn ELSE call.transform

BaseOf(call) ==
    IF call.transform.type = "with" THEN call.basePath \o call.transform.path
    ELSE call.basePath

\* C28: map(path, fn) over an array found at basePath ++ path returns an
\* array of the same length and order whose i-th element is fn evaluated
\* with the path ["item", ...] referring to the i-th element of the array,
\* for every basePath (a map nested inside with(...) included); when the
\* value at the resolved path is not an array it fails with the
\* expected-array error. Here fn is get(["item", ...]).
C28_MapOverItems ==
    \A p \in ProcIds :
        Transformed(p) /\ Inside(procs[p].call).type = "map" =>
            LET call == procs[p].call
                map == Inside(call)
                array == getValueByPath(call.data, BaseOf(call) \o map.path)
            IN IF IsArray(array)
               THEN procs[p].ret =
                        Return(Arr([i \in 1..Len(array.v) |->
                                      getValueByPath(array.v[i], Tail(map.fn.path))]))
               ELSE /\ procs[p].ret.kind = "throw"
                    /\ procs[p].ret.err.msg = "Expected array at path"

\* C29: if(path, branches) looks up v at basePath ++ path: when v is an
\* object with a tag field the result is the evaluation of branches[v.tag],
\* otherwise the evaluation of branches[string form of v]; when no branch key
\* matches (in particular when v is a tagged object whose tag is not a branch
\* key) evaluation fails with the no-branch error. Here the branches are
\* constants.
C29_IfDispatch ==
    \A p \in ProcIds :
        Transformed(p) /\ Inside(procs[p].call).type = "if" =>
            LET call == procs[p].call
                branches == Inside(call).branches
                v == getValueByPath(call.data, BaseOf(call) \o Inside(call).path)
                key == IF IsObject(v) /\ "tag" \in DOMAIN v.v THEN StringOf(v.v["tag"])
                       ELSE StringOf(v)
            IN IF key \in DOMAIN branches
               THEN procs[p].ret = Return(branches[key].value)
               ELSE /\ procs[p].ret.kind = "throw"
                    /\ procs[p].ret.err.msg = "No branch found for value"

(***************************************************************************)
(* The writes of executeNode.                                              *)
(***************************************************************************)
\* The node state of the node p's innermost executeNode is at, as
\* getExecutionState returns it after the step.
WrittenState(p) == getExecutionState(Top(p).sessionId)'.nodeStates[Top(p).nodeId]

\* The keys of the node state rows a step writes.
WrittenKeys ==
    {k \in DOMAIN nodeStates' : k \notin DOMAIN nodeStates \/ nodeStates'[k] # nodeStates[k]}

\* C30: for every executed node, the persisted node state is first written
\* with status running and the node's input, and is then followed by exactly
\* one terminal write: completed with the output when dispatch succeeded, or
\* failed with the error message when dispatch raised an error that is not a
\* suspension, in which case the same error propagates to the caller of
\* executeNode. Stated of the steps of executeNode: its first step writes
\* running, its last step writes the terminal state and leaves executeNode,
\* and no other step writes a node state; input and output are compared as
\* JSON holds them.
C30_RunningThenOneTerminalWrite ==
    [][\A p \in ProcIds :
          /\ At(p, "executeNode", "running") /\ procs'[p] # procs[p] =>
                /\ WrittenState(p).status = "running"
                /\ WrittenState(p).input = JsonRoundTrip(Top(p).input)
          /\ At(p, "executeNode", "afterBody") /\ procs'[p] # procs[p] =>
                /\ Len(procs'[p].stack) = Depth(p) - 1
                /\ IF procs[p].ret.kind = "return"
                   THEN /\ WrittenState(p).status = "completed"
                        /\ WrittenState(p).output = JsonRoundTrip(procs[p].ret.val)
                   ELSE /\ WrittenState(p).status = "failed"
                        /\ WrittenState(p).error = procs[p].ret.err
                        /\ procs'[p].ret = procs[p].ret
          /\ Active(p) /\ Top(p).fn # "executeNode" => WrittenKeys = {}]_vars
(***************************************************************************)
(* Group traversal.                                                        *)
(***************************************************************************)

\* C31: when the traversal of a group stands at an id that is not the exit
\* point and has no edge leaving it, the group fails there with the
\* missing-edge error, and the node of that id is not executed: the step
\* hands the error to the group's caller instead of calling executeNode.
C31_DanglingNodeNotExecuted ==
    [][\A p \in ProcIds :
          (/\ At(p, "executeGroupNode", "loop")
           /\ Top(p).currentNodeId # Top(p).node.exitPoint
           /\ FindEdge(Top(p).node.edges, Top(p).currentNodeId) = 0
           /\ executeGroupNode_loop(p))
          => procs' = Finish(p, Throw(Err("No outgoing edge found for node",
                                          Top(p).currentNodeId)))]_vars

(***************************************************************************)
(* Transform expressions: taggedUnion.                                     *)
(***************************************************************************)

\* C32: taggedUnion(tag, fields), when its field expressions evaluate,
\* evaluates to a record whose tag field is the literal tag of the
\* expression and whose other fields are the values of the field
\* expressions, for every set of field names, a field named "tag" included.
C32_TaggedUnionKeepsTag ==
    \A p \in ProcIds :
        Transformed(p) /\ procs[p].call.transform.type = "taggedUnion" =>
            LET call == procs[p].call
                fn == call.transform
                results == [f \in DOMAIN fn.value |->
                              executeTransform(fn.value[f], call.data, call.basePath)]
            IN (\A f \in DOMAIN fn.value : results[f].kind = "return") =>
                  /\ procs[p].ret.kind = "return"
                  /\ IsObject(procs[p].ret.val)
                  /\ DOMAIN procs[p].ret.val.v = DOMAIN fn.value \cup {"tag"}
                  /\ procs[p].ret.val.v["tag"] = Str(fn.tag)
                  /\ \A f \in DOMAIN fn.value \ {"tag"} :
                        procs[p].ret.val.v[f] = results[f].val

(***************************************************************************)
(* Approval requests and sessions after they are settled.                  *)
(***************************************************************************)

\* C33: once an approval request has left pending (its status is approved,
\* rejected or expired), no step changes its status, resolvedBy or
\* resolutionNotes: a later approveRequest or rejectRequest has no effect.
C33_ResolvedRequestIsFinal ==
    [][\A id \in DOMAIN approvals :
          approvals[id].status # "pending" =>
              /\ approvals'[id].status = approvals[id].status
              /\ approvals'[id].resolvedBy = approvals[id].resolvedBy
              /\ approvals'[id].resolutionNotes = approvals[id].resolutionNotes]_vars

\* C34: a session that has reached completed or failed never changes status
\* again: no resumeSession, approveRequest or rejectRequest moves it back to
\* running or to a waiting status.
C34_TerminalSessionIsFinal ==
    [][\A sid \in DOMAIN sessions :
          sessions[sid].status \in {"completed", "failed"} =>
              /\ sid \in DOMAIN sessions'
              /\ sessions'[sid].status = sessions[sid].status]_vars

\* C35: resumeSession(sessionId, approvalId) changes a session's status
\* only when the approval request belongs to that session: the approved
\* request of one session cannot change the status of another session.
C35_ResumeOwnSessionOnly ==
    [][\A p \in ProcIds, sid \in DOMAIN sessions :
          (/\ resumeSession_update(p)
           /\ sessions'[sid].status # sessions[sid].status)
          => /\ Top(p).approvalId \in DOMAIN approvals
             /\ approvals[Top(p).approvalId].sessionId = sid]_vars

(***************************************************************************)
(* Budget pools: suspension, checkBudget, termination of consumeBudget.    *)
(***************************************************************************)

\* C36: a suspended pool stays suspended until reactivatePool is called on
\* it: the only step that takes it out of suspended is the write of a
\* reactivatePool on that pool (increaseBudget changes its budgets, not its
\* status), and a consumeBudget that reads it suspended fails.
C36_SuspendedUntilReactivated ==
    [][\A id \in DOMAIN pools :
          pools[id].status = "suspended" =>
              /\ pools'[id].status # "suspended" =>
                    \E p \in ProcIds : /\ At(p, "reactivatePool", "update")
                                       /\ Top(p).poolId = id
                                       /\ reactivatePool_update(p)
              /\ \A p \in ProcIds :
                    (At(p, "consumeBudget", "get") /\ Top(p).poolId = id
                        /\ consumeBudget_get(p))
                    => procs'[p].ret = Throw(Err("Budget pool is not active", id))]_vars

\* C37: checkBudget agrees with consumeBudget: for every pool, with or
\* without ancestors, and every amount >= 0, when checkBudget(p, a) answers
\* true and nothing intervenes, consumeBudget(p, a) succeeds; when it
\* answers false, consumeBudget(p, a) fails.
C37_CheckAgreesWithConsume ==
    \A p \in ProcIds :
        Done(p) /\ procs[p].call.op = "checkThenConsume"
                /\ procs[p].call.checked.kind = "return" =>
            /\ procs[p].call.checked.val = Bool(TRUE) => procs[p].ret.kind = "return"
            /\ procs[p].call.checked.val = Bool(FALSE) => procs[p].ret.kind = "throw"

\* C38: consumeBudget(p, amount) terminates for every stored pool
\* configuration and every amount >= 0, amount = 0 included: a call that has
\* started ends, with success or with an error.
C38_ConsumeTerminates ==
    (Active(SeqProc) /\ procs[SeqProc].call.op = "consumeBudget") ~> ~Active(SeqProc)

(***************************************************************************)
(* Group traversal: termination.                                           *)
(***************************************************************************)

\* The errors with which the traversal of a group itself ends.
TraversalErrors ==
    {"Cycle detected at node", "Node not found in group", "No outgoing edge found for node"}

C40_ToolLogReferencesExecution ==
    [][\A p \in ProcIds :
          (At(p, "toolExecute", "logToolCall") /\ executeLLM_logToolCall(p)) =>
              \E e \in llmExecutions :
                  /\ e.sessionId = Top(p).sessionId
                  /\ e.nodeId = Top(p).nodeId
                  /\ LLMExecutionId(e.sessionId, e.nodeId)
                        = ToolExecutionId(Top(p).sessionId, Top(p).nodeId)]_vars

====
